---- MODULE Spec2Model ----
(***************************************************************************)
(* Moth: a multi-tenant host whose tenants are WebAssembly modules.        *)
(*                                                                         *)
(* Spec          the scripter stage running guest callbacks of one        *)
(*               WasmApp tenant built with the guest library: the         *)
(*               per-thread WASM instance and its Handle, the host        *)
(*               imports, and the tenant's store locks.                   *)
(* SpecAnyGuest  the same, for a tenant that is an arbitrary module.      *)
(* SpecFair      Spec with every scripter thread scheduled fairly.        *)
(* SpecDeploy    the built-in Deployer: /request on the scripter threads. *)
(* SpecUpload    the Deployer with /upload/<token> on the receivers.      *)
(* SpecUploadLate  the same, started fresh or after a receiver panicked   *)
(*               while closing an upload.                                 *)
(* SpecUploadFair  SpecUpload with every receiver scheduled fairly.       *)
(* SpecUploadAny the Deployer with /requests that name any hostname, the  *)
(*               deployer's own included, and their uploads.              *)
(* SpecTls       the server started with any configuration, tenants       *)
(*               registered by uploads, and the pipeline threads indexing *)
(*               the per-thread instances of the tenants.                 *)
(* SpecJson      the same server, with the opaque JSON handles that pass   *)
(*               from the receivers to the script threads and renderers.  *)
(* SpecRoute     a receiver resolving the path of one request on a route  *)
(*               tree and dispatching the endpoint.                       *)
(* SpecRequest   a receiver handling one request from its Host header to  *)
(*               the response or the ScriptCommand, for the deployer, a   *)
(*               tenant and unknown hosts.  SpecRequestFair adds weak     *)
(*               fairness of the receiver.                                *)
(* SpecRender    the renderer stage, for tenants that are arbitrary       *)
(*               modules.                                                 *)
(* SpecServe     server start: main() loading the configuration file and  *)
(*               serve() spawning the three thread pools.                 *)
(***************************************************************************)
EXTENDS Integers, Sequences, FiniteSets, TLC

\* ------------------------------------------------------------------------
\* Bounds of the model
\* ------------------------------------------------------------------------
\* number of ScriptJobs the receivers put on the script channel
MaxJobs == 2
\* number of scripter threads (script_threads of the server configuration)
NScripters == 2

\* number of receiver threads (request_threads of the server configuration)
NReceivers == 2
\* largest thread count a configuration file asks for
MaxThreads == 2
\* number of opaque JSON handles made while the server runs
MaxJsons == 2
\* number of /request calls and of /upload calls the server receives
MaxRequests == 2
MaxUploads == 2
\* max_size_bytes of the Deployer (max_service_cpio_mb of the configuration)
MaxSizeBytes == 3
\* longest body of an upload request
MaxBody == 3

Scripters == 1..NScripters
Receivers == 1..NReceivers

\* what a guest passes to the host imports
TemplateNames == {"page"}
ParamKeys == {"user"}
ParamValues == {"bob"}
Tables == {"users"}
TableKeys == {"bob"}
JsonTexts == {"{}"}

\* ------------------------------------------------------------------------
\* Handle (handle.rs)
\* ------------------------------------------------------------------------
NoTemplate == "<none>"
NoParams == <<>>
\* u64::MAX, the token of a Handle that was never prepared (no import reads it)
TokenUnset == -1

\* Handle::new(): no repository, no template, no cached guest export,
\* the static intern pool.  The db_path buffer is cleared at the start of
\* every Handle::db_path() and read nowhere else, so it is not kept as state.
HandleNew ==
    [repo |-> "None", token |-> TokenUnset, template |-> NoTemplate,
     parameters |-> NoParams, exports |-> FALSE, pool |-> "static"]

\* Handle::init(): caches parse_json, malloc, free, mem and the site's pool
HandleInit(h) == [h EXCEPT !.exports = TRUE, !.pool = "site"]

\* Handle::prepare() of a host that opens every invocation for writing
HandlePrepareReadWrite(h, read_only, token) ==
    [h EXCEPT !.token = token, !.repo = "ReadWrite"]

\* Handle::prepare()
db_token == 0
HandlePrepare(h, read_only, token) ==
    [h EXCEPT !.token = token,
              !.repo = IF read_only THEN "ReadOnly" ELSE "ReadWrite"]

\* Handle::reset(): the Handle left in the store and the extracted template
HandleResetLeft(h) == HandleNew
HandleResetTaken(h) ==
    IF h.template = NoTemplate THEN <<NoTemplate, NoParams>>
    ELSE <<h.template, h.parameters>>

HandleRepoNoBarrier(h, will_write) ==
    IF h.repo = "None" THEN "Nested internal call" ELSE "ok"

\* Handle::repo(will_write): "ok" or the trap message
HandleRepo(h, will_write) ==
    CASE h.repo = "None" -> "Nested internal call"
      [] h.repo = "ReadOnly" /\ will_write -> "RW/RO barrier"
      [] OTHER -> "ok"

\* Handle::db_path(): "<table>/<key>.json"
DbPath(table, key) == table \o "/" \o key \o ".json"

DbPaths == {DbPath(t, k) : t \in Tables, k \in TableKeys}
Missing == "<missing>"

\* LiteMap::insert: overwrite on a duplicate key
MapInsert(m, k, v) ==
    [x \in (DOMAIN m) \cup {k} |-> IF x = k THEN v ELSE m[x]]

\* ------------------------------------------------------------------------
\* Host imports (handle.rs).  Every import first moves the Handle out of the
\* store, leaving Handle::new() there, and moves it back only on the paths
\* that return Ok: after a trap the store holds Handle::new().
\* An import yields: outcome ("ok", "trap" or "panic"), the trap message,
\* data (the Handle left in the store), ret (the value returned to the
\* guest), the tenant's files, and whether the repository lock is poisoned.
\* ------------------------------------------------------------------------
ImportNames ==
    {"read_table_entry", "write_table_entry", "set_template_name", "set_template_param"}

\* what a guest export (__rs_malloc, __rs_free, __parse_json) does when the
\* host calls it.  The exports of the guest library (moth-wasm/lib.rs) return
\* or trap; the exports of an arbitrary module may also call a host import.
LibraryExports == {"ok", "trap"}
ExportBehaviours == LibraryExports \cup ImportNames

ImportArgs ==
    [name : TemplateNames, key : ParamKeys, value : ParamValues,
     table : Tables, tkey : TableKeys, json : JsonTexts,
     valid : BOOLEAN, storeErr : BOOLEAN, nested : ExportBehaviours]

\* the arguments that matter to each import (the others stay at a default);
\* exports is what the guest's exports may do
ArgsFor(beh, exports) ==
    CASE beh \in {"set_template_name", "set_template_param"} ->
           {a \in ImportArgs : ~a.storeErr /\ a.nested = "ok"}
      [] beh = "write_table_entry" ->
           {a \in ImportArgs : a.nested = "ok" /\ (a.storeErr => a.valid)}
      [] beh = "read_table_entry" ->
           {a \in ImportArgs : /\ a.nested \in exports
                               /\ a.storeErr => a.valid
                               /\ a.nested # "ok" => (a.valid /\ ~a.storeErr)}
      [] OTHER ->
           {a \in ImportArgs : a.valid /\ ~a.storeErr /\ a.nested = "ok"}

ImportOk(h, ret, files, poisoned) ==
    [outcome |-> "ok", msg |-> "", data |-> h, ret |-> ret,
     files |-> files, poisoned |-> poisoned]

ImportTrap(msg, files, poisoned) ==
    [outcome |-> "trap", msg |-> msg, data |-> HandleNew, ret |-> 0,
     files |-> files, poisoned |-> poisoned]

\* an unwrap() of None or of a poisoned lock: the calling thread unwinds
ImportPanic(files, poisoned) ==
    [outcome |-> "panic", msg |-> "panic", data |-> HandleNew, ret |-> 0,
     files |-> files, poisoned |-> poisoned]

\* set_template_name
SetTemplateName(h, a, files, poisoned) ==
    IF ~h.exports THEN ImportPanic(files, poisoned)       \* self.mem.unwrap()
    ELSE IF ~a.valid THEN ImportTrap("Invalid Pointer", files, poisoned)
    ELSE ImportOk([h EXCEPT !.template = a.name], 0, files, poisoned)

\* set_template_param
SetTemplateParam(h, a, files, poisoned) ==
    IF ~h.exports THEN ImportPanic(files, poisoned)       \* self.mem.unwrap()
    ELSE IF ~a.valid THEN ImportTrap("Invalid Pointer", files, poisoned)
    ELSE ImportOk([h EXCEPT !.parameters = MapInsert(h.parameters, a.key, a.value)],
                  0, files, poisoned)

\* write_table_entry
WriteTableEntry(h, a, files, poisoned) ==
    LET gate == HandleRepo(h, TRUE) IN
    IF gate # "ok" THEN ImportTrap(gate, files, poisoned)
    ELSE IF poisoned THEN ImportPanic(files, poisoned)    \* repo.write().unwrap()
    ELSE IF ~h.exports THEN ImportPanic(files, TRUE)      \* self.mem.unwrap(), write guard held
    ELSE IF ~a.valid THEN ImportTrap("Invalid Pointer", files, poisoned)
    ELSE IF a.storeErr THEN ImportTrap("Repository::stage()", files, poisoned)
    ELSE ImportOk(h, 0,
                  [files EXCEPT ![DbPath(a.table, a.tkey)] = a.json], poisoned)

\* read_table_entry; nestedOutcome is the outcome of the guest exports
\* (__rs_malloc, __parse_json, __rs_free) the import calls back
ReadTableEntry(h, a, files, poisoned, nestedOutcome) ==
    LET gate == HandleRepo(h, FALSE) IN
    IF gate # "ok" THEN ImportTrap(gate, files, poisoned)
    ELSE IF poisoned THEN ImportPanic(files, poisoned)    \* repo.read().unwrap()
    ELSE IF ~h.exports THEN ImportPanic(files, poisoned)  \* self.mem.unwrap()
    ELSE IF ~a.valid THEN ImportTrap("Invalid Pointer", files, poisoned)
    ELSE IF a.storeErr THEN ImportTrap("read_table_entry", files, poisoned)
    ELSE IF files[DbPath(a.table, a.tkey)] = Missing          \* Error::PathError
         THEN ImportOk(h, 0, files, poisoned)
    ELSE IF nestedOutcome = "panic" THEN ImportPanic(files, poisoned)
    ELSE IF nestedOutcome = "trap" THEN ImportTrap("nested", files, poisoned)
    ELSE ImportOk(h, 1, files, poisoned)

ImportBase(fn, h, a, files, poisoned, nestedOutcome) ==
    CASE fn = "set_template_name" -> SetTemplateName(h, a, files, poisoned)
      [] fn = "set_template_param" -> SetTemplateParam(h, a, files, poisoned)
      [] fn = "write_table_entry" -> WriteTableEntry(h, a, files, poisoned)
      [] fn = "read_table_entry" -> ReadTableEntry(h, a, files, poisoned, nestedOutcome)

\* a guest export called from inside read_table_entry runs while the store
\* holds Handle::new(); an import it calls sees that Handle
NestedRun(a, files, poisoned) ==
    IF a.nested \in {"ok", "trap"} THEN a.nested
    ELSE ImportBase(a.nested, HandleNew, a, files, poisoned, "ok").outcome

Import(fn, h, a, files, poisoned) ==
    ImportBase(fn, h, a, files, poisoned, NestedRun(a, files, poisoned))

\* a guest export called by WasmThread::malloc / WasmThread::free
ExportRun(beh, h, a, files, poisoned) ==
    CASE beh = "ok" -> ImportOk(h, 0, files, poisoned)
      [] beh = "trap" ->
           [outcome |-> "trap", msg |-> "guest", data |-> h, ret |-> 0,
            files |-> files, poisoned |-> poisoned]
      [] OTHER -> Import(beh, h, a, files, poisoned)

\* ------------------------------------------------------------------------
\* Deployer (deploy.rs): pure parts
\* ------------------------------------------------------------------------
\* type Key = [u8; 32]
KeyBytes == 32

Digits == <<"0", "1", "2", "3", "4", "5", "6", "7", "8", "9">>
LowerHex == <<"a", "b", "c", "d", "e", "f">>
UpperHex == <<"A", "B", "C", "D", "E", "F">>

\* HEX_TO_WORD: 255 is "not a hex digit"
HEX_TO_WORD(c) ==
    IF \E i \in 1..10 : Digits[i] = c THEN (CHOOSE i \in 1..10 : Digits[i] = c) - 1
    ELSE IF \E i \in 1..6 : LowerHex[i] = c THEN (CHOOSE i \in 1..6 : LowerHex[i] = c) + 9
    ELSE IF \E i \in 1..6 : UpperHex[i] = c THEN (CHOOSE i \in 1..6 : UpperHex[i] = c) + 9
    ELSE 255

None == <<"None">>

\* decode_hex::<N>: hex is a sequence of characters
decode_hex(hex, N) ==
    IF Len(hex) = N * 2
    THEN IF \E i \in 1..(N * 2) : HEX_TO_WORD(hex[i]) = 255
         THEN None
         ELSE [i \in 1..N |->
                 (HEX_TO_WORD(hex[2 * i - 1]) * 16 + HEX_TO_WORD(hex[2 * i])) % 256]
    ELSE None

\* str::parse::<usize>: decimal digits after an optional "+"
RECURSIVE DecimalValue(_)
DecimalValue(s) ==
    IF s = <<>> THEN 0
    ELSE DecimalValue(SubSeq(s, 1, Len(s) - 1)) * 10 + HEX_TO_WORD(s[Len(s)])

ParseUsize(s) ==
    LET d == IF s # <<>> /\ s[1] = "+" THEN Tail(s) ELSE s
    IN IF d # <<>> /\ \A i \in 1..Len(d) : \E k \in 1..10 : Digits[k] = d[i]
       THEN DecimalValue(d)
       ELSE -1

\* a property of the JSON body of /request: a string, or anything else
Str(v) == <<"str", v>>
NotStr == <<"other">>
as_string(f) == f[1] = "str"

\* Deployer::process_script up to the size check: the parsed request, or
\* ok = FALSE when the function returns an error
Rejected == [ok |-> FALSE, site |-> "", key |-> None, size_bytes |-> 0]

\* a process_script that does not compare size_bytes with max_size_bytes
ParseRequestNoLimit(body) ==
    IF ~as_string(body.site) THEN Rejected
    ELSE IF ~as_string(body.key) THEN Rejected
    ELSE IF decode_hex(body.key[2], KeyBytes) = None THEN Rejected
    ELSE IF ~as_string(body.size_bytes) THEN Rejected
    ELSE IF ParseUsize(body.size_bytes[2]) < 0 THEN Rejected
    ELSE [ok |-> TRUE, site |-> body.site[2],
          key |-> decode_hex(body.key[2], KeyBytes),
          size_bytes |-> ParseUsize(body.size_bytes[2])]

ParseRequest(body) ==
    IF ~as_string(body.site) THEN Rejected
    ELSE IF ~as_string(body.key) THEN Rejected
    ELSE IF decode_hex(body.key[2], KeyBytes) = None THEN Rejected
    ELSE IF ~as_string(body.size_bytes) THEN Rejected
    ELSE IF ParseUsize(body.size_bytes[2]) < 0 THEN Rejected
    ELSE IF ParseUsize(body.size_bytes[2]) > MaxSizeBytes THEN Rejected
    ELSE [ok |-> TRUE, site |-> body.site[2],
          key |-> decode_hex(body.key[2], KeyBytes),
          size_bytes |-> ParseUsize(body.size_bytes[2])]

KeyMatchesAny(bound, submitted) == TRUE

\* Deployer::process_script, the comparison with the key bound to the site
KeyMatches(bound, submitted) == bound = submitted

\* Vec<u8>::extend_from_slice: the capacity after appending add bytes
Max(a, b) == IF a > b THEN a ELSE b
Min(a, b) == IF a < b THEN a ELSE b
VecCapacityAfter(cap, len, add) ==
    IF cap - len >= add THEN cap ELSE Max(8, Max(2 * cap, len + add))

\* WasmApp::new on the accumulated bytes: "ok", "err" (logged), or "panic"
\* (Module::new(..).unwrap() on bytes that are no WASM module).  An archive
\* is read up to its trailer: "a" stands for a well-formed entry list, "b"
\* for the trailer, "c" for a site.wasm that does not compile.
BundleOutcome(bytes) ==
    IF Len(bytes) >= 2 /\ bytes[1] = "a" /\ bytes[2] = "b" THEN "ok"
    ELSE IF Len(bytes) >= 2 /\ bytes[1] = "c" /\ bytes[2] = "b" THEN "panic"
    ELSE "err"

\* chunk_size of process_endpoint
chunk_size == 4096 * 4

\* ------------------------------------------------------------------------
\* Inputs of SpecDeploy and SpecUpload
\* ------------------------------------------------------------------------
DeployerHost == "moth.host"
Hosts == {"a.com", DeployerHost}

HexKey(c) == [i \in 1..(KeyBytes * 2) |-> c]

RequestBodies ==
    {[site |-> Str("a.com"), key |-> Str(HexKey("f")), size_bytes |-> Str(<<"2">>)],
     [site |-> Str("a.com"), key |-> Str(HexKey("0")), size_bytes |-> Str(<<"2">>)],
     [site |-> Str("a.com"), key |-> Str(HexKey("F")), size_bytes |-> Str(<<"3">>)],
     [site |-> Str("a.com"), key |-> Str(HexKey("f")), size_bytes |-> Str(<<"9">>)],
     [site |-> Str("a.com"), key |-> Str(HexKey("z")), size_bytes |-> Str(<<"2">>)],
     [site |-> Str("a.com"), key |-> Str(HexKey("f")), size_bytes |-> Str(<<"x">>)],
     [site |-> Str(DeployerHost), key |-> Str(HexKey("f")), size_bytes |-> Str(<<"2">>)],
     [site |-> NotStr, key |-> Str(HexKey("f")), size_bytes |-> Str(<<"2">>)]}

\* the /request bodies that open a session for a.com
SessionRequests ==
    {[site |-> Str("a.com"), key |-> Str(HexKey("f")), size_bytes |-> Str(<<"2">>)]}

\* the tokens rand::random() produces, formatted by {:x}
TokenSpace == {"1f", "2e"}

UploadBodies ==
    {<<"a", "b">>, <<"a", "b", "a">>, <<"b", "a">>, <<"a">>, <<"c", "b">>}

UploadPaths == {<<>>} \cup {<<k>> : k \in TokenSpace} \cup {<<k, k>> : k \in TokenSpace}

\* ------------------------------------------------------------------------
\* State
\* ------------------------------------------------------------------------
VARIABLES
    \* the scripter stage of a WasmApp tenant
    scriptQ,        \* the script channel: ScriptCommands, FIFO
    renderQ,        \* the render channel: (request, RendererCommand), FIFO
    nextReq,        \* number of requests received so far
    pc,             \* per scripter thread: "idle", "wait_lock", "call", "dead"
    job,            \* per scripter thread: the ScriptCommand it is running
    handle,         \* per scripter thread: the Handle in its instance's store
    files,          \* the tenant's repository: path -> staged content
    readers,        \* WasmApp.repo (outer RwLock): threads holding a read guard
    writer,         \* WasmApp.repo (outer RwLock): thread holding the write guard, or 0
    outerPoisoned,  \* WasmApp.repo is poisoned
    innerPoisoned,  \* the RwLock<Repository> inside the Arc is poisoned
    result,         \* per request: what process_script returned
    lastCall        \* the host import the last step called, if it called one

wasmVars ==
    <<scriptQ, renderQ, nextReq, pc, job, handle, files, readers, writer,
      outerPoisoned, innerPoisoned, result, lastCall>>

VARIABLES
    \* the Deployer
    dQ,             \* the script channel: /request commands, FIFO
    dRenderQ,       \* the render channel: (request, Json(token)), FIFO
    dNext,          \* number of /request calls received so far
    dpc,            \* per scripter thread: "idle", "lock", "owner", "reserve", "dead"
    djob,           \* per scripter thread: the parsed /request it is running
    dResult,        \* per /request: what process_script returned, and for whom
    adminsLock,     \* Deployer.admins (Mutex): the thread holding it, or 0
    admins,         \* Deployer.admins: hostname -> key, or None
    pending,        \* Deployer.pending_uploads: token -> (bytes, capacity, site)
    pendingPoisoned,\* Deployer.pending_uploads (RwLock) is poisoned
    registry,       \* Sites: hostname -> the kind of Site it resolves to
    nUploads,       \* number of /upload calls received so far
    up              \* per receiver thread: the upload request it handles

deployVars ==
    <<dQ, dRenderQ, dNext, dpc, djob, dResult, adminsLock, admins, pending,
      pendingPoisoned, registry, nUploads, up>>

\* ------------------------------------------------------------------------
\* Route resolution (request.rs, request_waiter): the route tree of a site,
\* the segments of the request URL, and the walk over them
\* ------------------------------------------------------------------------
\* number of non-empty segments of a request URL
MaxPath == 3

\* the segments a URL is made of; "a" is the key a Dir may hold in items
Segments == {"a", "x"}
ItemKey == "a"

\* Endpoints are held by reference: an endpoint is a node of the tree
Root == 1
SubDir == 2
StaticLeaf == 3
ScriptLeaf == 4
UploadLeaf == 5
NotFound == 6
NoEndpoint == 0

\* EndpointMap.items
NoItems == [k \in {} |-> NoEndpoint]
ItemsOf(child) == IF child = NoEndpoint THEN NoItems ELSE [k \in {ItemKey} |-> child]

\* Endpoint::Dir(EndpointMap { default, wildcard, items })
Dir(default, wildcard, item) ==
    [kind |-> "Dir", path |-> "", default |-> default, wildcard |-> wildcard,
     items |-> ItemsOf(item), read_only |-> FALSE, code |-> 0]
\* Endpoint::Static, Endpoint::ScriptExec, Endpoint::Upload
Leaf(kind, path) ==
    [kind |-> kind, path |-> path, default |-> NoEndpoint,
     wildcard |-> NoEndpoint, items |-> NoItems, read_only |-> FALSE, code |-> 0]

\* Endpoint::ScriptExec(read_only, script_name)
ScriptExec(read_only, script_name) ==
    [Leaf("ScriptExec", script_name) EXCEPT !.read_only = read_only]

\* Endpoint::Error(code)
ErrorEndpoint(code) == [Leaf("Error", "") EXCEPT !.code = code]

\* site.routes() with site.on_404() (on404: the endpoint on_404 holds)
MkSite(rd, rw, ri, sd, sw, si, on404) ==
    [n \in Root..NotFound |->
        CASE n = Root -> Dir(rd, rw, ri)
          [] n = SubDir -> Dir(sd, sw, si)
          [] n = StaticLeaf -> Leaf("Static", "p")
          [] n = ScriptLeaf -> ScriptExec(TRUE, "s")
          [] n = UploadLeaf -> Leaf("Upload", "")
          [] OTHER -> on404]

\* a site whose on_404 is the Static "404"
MkTree(rd, rw, ri, sd, sw, si) ==
    MkSite(rd, rw, ri, sd, sw, si, Leaf("Static", "404"))

RootChildren == {NoEndpoint, SubDir, StaticLeaf, ScriptLeaf, UploadLeaf}
SubChildren == {NoEndpoint, StaticLeaf, ScriptLeaf}

Trees ==
    {MkTree(rd, rw, ri, sd, sw, si) :
        rd \in RootChildren, rw \in RootChildren, ri \in RootChildren,
        sd \in SubChildren, sw \in SubChildren, si \in SubChildren}

\* request.url().split('/').filter(|s| !s.is_empty())
Paths == UNION {[1..n -> Segments] : n \in 0..MaxPath}

\* Option<String>
NoOverride == [some |-> FALSE, v |-> ""]
SomeOverride(v) == [some |-> TRUE, v |-> v]

\* the Host header of a request: absent, or a name with or without a port
NoHost == <<>>
HostHeaders ==
    {NoHost, <<"a.com">>, <<"a.com", ":", "80">>, <<DeployerHost>>, <<"b.org">>}

\* header.value.as_str().split(":").next().unwrap()
StripPort(value) ==
    IF \E i \in 1..Len(value) : value[i] = ":"
    THEN SubSeq(value, 1, (CHOOSE i \in 1..Len(value) :
                             value[i] = ":" /\ \A j \in 1..(i - 1) : value[j] # ":") - 1)
    ELSE value

\* no port is stripped (mutant)
KeepPort(value) == value

\* the text of a header value
RECURSIVE Joined(_)
Joined(value) == IF value = <<>> THEN "" ELSE Head(value) \o Joined(Tail(value))

\* a lookup that hands unknown hosts to the deployer (mutant)
SitesGetFallback(reg, header) ==
    IF header # NoHost /\ Joined(StripPort(header)) \in DOMAIN reg
    THEN reg[Joined(StripPort(header))]
    ELSE reg[DeployerHost]

\* Sites::get for the Host header of a request; without a Host header the
\* site stays None
SitesGet(reg, header) ==
    IF header = NoHost THEN "none"
    ELSE IF Joined(StripPort(header)) \in DOMAIN reg THEN reg[Joined(StripPort(header))]
    ELSE "none"

\* the registry once the tenant a.com has been uploaded
TenantRegistry ==
    [h \in Hosts |-> IF h = DeployerHost THEN "Deployer" ELSE "WasmApp"]

\* what is outside the program when process_endpoint runs: whether the body
\* can be read, whether it is JSON, whether an export of the guest traps
\* while the body is parsed, and whether the bundle holds the requested
\* asset (hit) and the asset of on_404 (hit404)
DispatchInputs ==
    [reads : BOOLEAN, valid : BOOLEAN, guest : {"ok", "trap"},
     hit : BOOLEAN, hit404 : BOOLEAN]
NoInput == [reads |-> TRUE, valid |-> TRUE, guest |-> "ok", hit |-> TRUE, hit404 |-> TRUE]

VARIABLES
    hostHeader,     \* the Host header of the request
    siteOpt,        \* "unset", or what sites.get returned: "none", a Site
    written,        \* the responses written to the request, in order
    sent,           \* the ScriptCommands sent on runs_tx for the request
    env,            \* the inputs process_endpoint met
    tree,           \* the site's route tree and its on_404 endpoint
    path,           \* the segments of the request URL
    pos,            \* number of segments the loop has taken
    endpoint,       \* the current endpoint
    path_vars,      \* captured segments
    path_override,  \* the assembled static path, if any
    rpc,            \* "recv", "walk" (segment loop), "trail" (trailing Dir
                    \* loop), "dispatch", "done"
    how,            \* per segment taken: what the loop did with it
    answer          \* what process_endpoint did with the request

routeVars ==
    <<hostHeader, siteOpt, written, sent, env,
      tree, path, pos, endpoint, path_vars, path_override, rpc, how, answer>>

\* process_endpoint has not been called
NoAnswer == [what |-> "none", status |-> 0, asset |-> ""]

\* the state of a receiver before a request arrives
InitRouteIdle ==
    /\ hostHeader = NoHost
    /\ siteOpt = "unset"
    /\ written = <<>>
    /\ sent = <<>>
    /\ env = NoInput
    /\ tree = MkTree(NoEndpoint, NoEndpoint, NoEndpoint, NoEndpoint, NoEndpoint, NoEndpoint)
    /\ path = <<>>
    /\ pos = 0
    /\ endpoint = Root
    /\ path_vars = <<>>
    /\ path_override = NoOverride
    /\ rpc = "done"
    /\ how = <<>>
    /\ answer = NoAnswer

\* ------------------------------------------------------------------------
\* Renderer stage (renderer.rs): state
\* ------------------------------------------------------------------------
NRenderers == 2
MaxRenders == 2
Renderers == 1..NRenderers

\* the two implementations of Site
SiteKinds == {"WasmApp", "Deployer"}

\* the parameters a Template command may carry
ParamMaps == {NoParams} \cup {MapInsert(NoParams, k, v) : k \in ParamKeys, v \in ParamValues}

VARIABLES
    rendersRx,      \* the render channel: RendererCommands still to be taken
    rNext,          \* number of render commands sent so far
    rhandle,        \* per renderer thread: the Handle in its WasmApp instance
    rlive,          \* per renderer thread: "idle" or "dead"
    rresult,        \* per request: what the site call returned to the renderer
    responses       \* per request: the responses written, in order

renderVars == <<rendersRx, rNext, rhandle, rlive, rresult, responses>>

InitRender ==
    /\ rendersRx = <<>>
    /\ rNext = 0
    \* prepare_tls clones the first thread: from_module, Handle::new(), init()
    /\ rhandle = [t \in Renderers |-> HandleInit(HandleNew)]
    /\ rlive = [t \in Renderers |-> "idle"]
    /\ rresult = [r \in 1..MaxRenders |-> "none"]
    /\ responses = [r \in 1..MaxRenders |-> <<>>]

\* a property of the configuration file: a number, or anything else
NotNum == [isNum |-> FALSE, value |-> 0]
Num(n) == [isNum |-> TRUE, value |-> n]
ConfigProps == {NotNum} \cup {Num(n) : n \in 0..MaxThreads}
ThreadProps == {"request_threads", "script_threads", "render_threads"}
ConfigFiles == [ThreadProps -> ConfigProps]

\* Sites::new(request_threads, script_threads, render_threads)
SitesNew(request_threads, script_threads, render_threads) ==
    [request_threads |-> request_threads, script_threads |-> script_threads,
     render_threads |-> render_threads]

\* Sites::total_threads
total_threads(s) == s.request_threads + s.script_threads + s.render_threads

\* WasmApp::new: `threads` holds the one instance built from the bundle
WasmAppNew(host) == <<[host |-> host, idx |-> 0]>>

\* prepare_tls: Mutex::new(first_thread.clone()), pushed at the end
CloneFirst(threads) == [threads[1] EXCEPT !.idx = Len(threads)]

\* WasmApp::prepare_tls: `while threads.len() < script_threads`
RECURSIVE PrepareTls(_, _)
PrepareTls(threads, n) ==
    IF Len(threads) < n THEN PrepareTls(Append(threads, CloneFirst(threads)), n)
    ELSE threads

\* an insert that prepares an instance per script thread only (mutant)
TlsCountScripts(s) == s.script_threads

\* Sites::insert: site.prepare_tls(self.total_threads())
TlsCount(s) == total_threads(s)

\* the instances of the WasmApps a registry holds
TlsOf(reg, s) ==
    [h \in DOMAIN reg |->
        IF reg[h] = "WasmApp" THEN PrepareTls(WasmAppNew(h), TlsCount(s)) ELSE <<>>]

\* no instance has been indexed
NoAccess == [some |-> FALSE, fn |-> "", tid |-> 0, host |-> "", inBounds |-> TRUE]

VARIABLES
    config,         \* the thread properties of the JSON configuration file
    sitesThreads,   \* the thread counts held by the Sites passed to serve()
    guards,         \* the threads spawned so far: function run and tid
    spc,            \* main(): "main", "serve", "join" or "panicked"
    tls,            \* per hostname: WasmApp.threads of the site registered
    access,         \* the last threads[tid] a pipeline thread evaluated
    jsons           \* the opaque JSON handles made so far: the instance that
                    \* allocated each, and the instances that dereferenced it

serveVars == <<config, sitesThreads, guards, spc, tls, access, jsons>>

\* the threads of one pool among the spawned ones
Spawned(fn) == {i \in 1..Len(guards) : guards[i].fn = fn}

\* serve(): the guards after its three loops
AllGuards(s) ==
    [i \in 1..total_threads(s) |->
        [fn |-> IF i <= s.request_threads THEN "request_waiter"
                ELSE IF i <= s.request_threads + s.script_threads
                     THEN "script_runner" ELSE "renderer",
         tid |-> i - 1]]

\* a server that has started with one value for every pool
InitServeIdle ==
    /\ config = [p \in ThreadProps |->
                    Num(IF p = "render_threads" THEN NRenderers ELSE NReceivers)]
    /\ sitesThreads = SitesNew(NReceivers, NReceivers, NRenderers)
    /\ guards = AllGuards(sitesThreads)
    /\ spc = "join"
    /\ tls = TlsOf(registry, sitesThreads)
    /\ access = NoAccess
    /\ jsons = <<>>

vars == <<wasmVars, deployVars, routeVars, renderVars, serveVars>>

NoJob == [req |-> 0, read_only |-> TRUE]
\* no callback returned 0 with a template set in the last step
NoReturn ==
    [some |-> FALSE, req |-> 0, value |-> 0, freed |-> FALSE,
     template |-> NoTemplate, parameters |-> NoParams]

\* no template import was called through a valid pointer in the last step
NoTemplateArgs == [valid |-> FALSE, name |-> NoTemplate, key |-> "", value |-> ""]

NoCall ==
    [fn |-> "none", phase |-> "none", repo |-> "None", outcome |-> "none",
     msg |-> "", staged |-> FALSE, changed |-> FALSE, req |-> 0,
     args |-> NoTemplateArgs, returned |-> NoReturn]

\* the last step was Handle::prepare for request req: its callback starts
Prepared(req) == [NoCall EXCEPT !.fn = "prepare", !.phase = "prepare", !.req = req]

\* a guest callback returns 0 or an opaque JSON handle
ReturnValues == {0, 1}

InitWasm ==
    /\ scriptQ = <<>>
    /\ renderQ = <<>>
    /\ nextReq = 0
    /\ pc = [t \in Scripters |-> "idle"]
    /\ job = [t \in Scripters |-> NoJob]
    \* WasmThread::from_module: Store::new(engine, Handle::new()), then init()
    /\ handle = [t \in Scripters |-> HandleInit(HandleNew)]
    \* Repository::new(); a clone that finds no branch leaves it empty
    /\ files = [p \in DbPaths |-> Missing]
    /\ readers = {}
    /\ writer = 0
    /\ outerPoisoned = FALSE
    /\ innerPoisoned = FALSE
    /\ result = [r \in 1..MaxJobs |-> "none"]
    /\ lastCall = NoCall

CanBorrowAsReader(read_only) == writer = 0

\* RwLock::read / RwLock::write on WasmApp.repo
CanBorrow(read_only) ==
    IF read_only THEN writer = 0 ELSE writer = 0 /\ readers = {}

\* a RepoBorrow that outlives the invocation
KeptWriter(t) == writer

\* dropping the RepoBorrow of thread t
ReleasedReaders(t) == readers \ {t}
ReleasedWriter(t) == IF writer = t THEN 0 ELSE writer

\* whether the import changed the template or the parameters of the Handle
Changed(h, r) ==
    \/ r.data.template # h.template
    \/ r.data.parameters # h.parameters

Recorded(beh, phase, h, r, req) ==
    IF beh \in ImportNames
    THEN [fn |-> beh, phase |-> phase, repo |-> h.repo, outcome |-> r.outcome,
          msg |-> r.msg, staged |-> (r.files # files),
          changed |-> Changed(h, r), req |-> req,
          args |-> NoTemplateArgs, returned |-> NoReturn]
    ELSE NoCall

\* the arguments a callback passed to set_template_name or set_template_param
\* through valid pointers
TemplateArgs(fn, a) ==
    IF fn = "set_template_name" /\ a.valid
    THEN [NoTemplateArgs EXCEPT !.valid = TRUE, !.name = a.name]
    ELSE IF fn = "set_template_param" /\ a.valid
    THEN [NoTemplateArgs EXCEPT !.valid = TRUE, !.key = a.key, !.value = a.value]
    ELSE NoTemplateArgs

\* a callback returned 0 for request req while the Handle h held a template
\* name, and the guest freed the argument buffer; other returns are not kept
ReturnOf(req, value, h, freed) ==
    IF value = 0 /\ freed /\ h.template # NoTemplate
    THEN [some |-> TRUE, req |-> req, value |-> value, freed |-> freed,
          template |-> h.template, parameters |-> h.parameters]
    ELSE NoReturn

\* script_runner with a filter that also forwards failed scripts (mutant)
ScriptRunnerSendAlways(q, res, req, taken, ret) ==
    Append(q, [req |-> req, kind |-> "Template", template |-> taken[1],
               parameters |-> taken[2], json |-> 0])

\* script_runner: what it sends on the render channel for the result res of
\* process_script; nothing unless process_script returned Ok
ScriptRunnerSend(q, res, req, taken, ret) ==
    CASE res = "json" ->
           Append(q, [req |-> req, kind |-> "Json", template |-> NoTemplate,
                      parameters |-> NoParams, json |-> ret])
      [] res = "template" ->
           Append(q, [req |-> req, kind |-> "Template", template |-> taken[1],
                      parameters |-> taken[2], json |-> 0])
      [] OTHER -> q

\* WasmApp::process_script, the final match on the script result
ScriptResultOf(template, json) ==
    CASE template = NoTemplate /\ json # 0 -> "json"
      [] template # NoTemplate /\ json = 0 -> "template"
      [] OTHER -> "err"

\* ------------------------------------------------------------------------
\* Actions of Spec
\* ------------------------------------------------------------------------
\* request_waiter / process_endpoint: a ScriptExec endpoint was resolved and
\* the body parsed; the ScriptCommand goes to the script channel
EnqueueScript(read_only) ==
    /\ nextReq < MaxJobs
    /\ nextReq' = nextReq + 1
    /\ scriptQ' = Append(scriptQ, [req |-> nextReq + 1, read_only |-> read_only])
    /\ lastCall' = NoCall
    /\ UNCHANGED <<renderQ, pc, job, handle, files, readers, writer,
                   outerPoisoned, innerPoisoned, result>>
    /\ UNCHANGED <<deployVars, routeVars, renderVars, serveVars>>

\* script_runner takes a command; process_script locks the instance;
\* call_script_fn allocates the argument buffer (a guest export) and looks
\* the callback up (known: the module exports the command's script), all
\* before the repository is borrowed
TakeJob(t, beh, a, known) ==
    /\ pc[t] = "idle"
    /\ scriptQ # <<>>
    /\ LET j == Head(scriptQ)
           r == ExportRun(beh, handle[t], a, files, innerPoisoned)
       IN /\ scriptQ' = Tail(scriptQ)
          /\ handle' = [handle EXCEPT ![t] = r.data]
          /\ files' = r.files
          /\ innerPoisoned' = r.poisoned
          /\ lastCall' = Recorded(beh, "malloc", handle[t], r, j.req)
          /\ CASE r.outcome = "panic" ->
                    /\ pc' = [pc EXCEPT ![t] = "dead"]
                    /\ result' = [result EXCEPT ![j.req] = "panic"]
                    /\ job' = job
               [] r.outcome = "trap" \/ (r.outcome = "ok" /\ ~known) ->
                    /\ pc' = pc
                    /\ result' = [result EXCEPT ![j.req] = "err"]
                    /\ job' = job
               [] OTHER ->
                    /\ pc' = [pc EXCEPT ![t] = "wait_lock"]
                    /\ result' = result
                    /\ job' = [job EXCEPT ![t] = j]
    /\ UNCHANGED <<renderQ, nextReq, readers, writer, outerPoisoned>>
    /\ UNCHANGED <<deployVars, routeVars, renderVars, serveVars>>

\* call_script_fn: borrow the repository, then Handle::prepare
BorrowAndPrepare(t) ==
    /\ pc[t] = "wait_lock"
    /\ CanBorrow(job[t].read_only)
    /\ IF outerPoisoned
       THEN \* read().unwrap() / write().unwrap() of a poisoned lock
            /\ pc' = [pc EXCEPT ![t] = "dead"]
            /\ result' = [result EXCEPT ![job[t].req] = "panic"]
            /\ job' = [job EXCEPT ![t] = NoJob]
            /\ UNCHANGED <<handle, readers, writer>>
       ELSE /\ pc' = [pc EXCEPT ![t] = "call"]
            /\ handle' = [handle EXCEPT
                   ![t] = HandlePrepare(handle[t], job[t].read_only, db_token)]
            /\ readers' = IF job[t].read_only THEN readers \cup {t} ELSE readers
            /\ writer' = IF job[t].read_only THEN writer ELSE t
            /\ UNCHANGED <<result, job>>
    /\ lastCall' = IF outerPoisoned THEN NoCall ELSE Prepared(job[t].req)
    /\ UNCHANGED <<scriptQ, renderQ, nextReq, files, outerPoisoned,
                   innerPoisoned>>
    /\ UNCHANGED <<deployVars, routeVars, renderVars, serveVars>>

\* the guest callback calls a host import
CallImport(t, fn, a) ==
    /\ pc[t] = "call"
    /\ LET r == Import(fn, handle[t], a, files, innerPoisoned)
       IN /\ handle' = [handle EXCEPT ![t] = r.data]
          /\ files' = r.files
          /\ innerPoisoned' = r.poisoned
          /\ lastCall' = [Recorded(fn, "call", handle[t], r, job[t].req)
                             EXCEPT !.args = TemplateArgs(fn, a)]
          /\ CASE r.outcome = "ok" ->
                    UNCHANGED <<pc, job, result, readers, writer, outerPoisoned>>
               [] r.outcome = "trap" ->
                    \* func.call returns the trap: early return, no reset
                    /\ pc' = [pc EXCEPT ![t] = "idle"]
                    /\ job' = [job EXCEPT ![t] = NoJob]
                    /\ result' = [result EXCEPT ![job[t].req] = "err"]
                    /\ readers' = ReleasedReaders(t)
                    /\ writer' = ReleasedWriter(t)
                    /\ UNCHANGED outerPoisoned
               [] OTHER ->
                    \* the thread unwinds; a write guard dropped then poisons
                    /\ pc' = [pc EXCEPT ![t] = "dead"]
                    /\ job' = [job EXCEPT ![t] = NoJob]
                    /\ result' = [result EXCEPT ![job[t].req] = "panic"]
                    /\ readers' = ReleasedReaders(t)
                    /\ writer' = ReleasedWriter(t)
                    /\ outerPoisoned' = (outerPoisoned \/ writer = t)
    /\ UNCHANGED <<scriptQ, renderQ, nextReq>>
    /\ UNCHANGED <<deployVars, routeVars, renderVars, serveVars>>

\* the guest callback traps by itself (unreachable, out-of-bounds access...)
\* or wasmi refuses the call: call_script_fn returns early, without reset
GuestTrap(t) ==
    /\ pc[t] = "call"
    /\ pc' = [pc EXCEPT ![t] = "idle"]
    /\ job' = [job EXCEPT ![t] = NoJob]
    /\ result' = [result EXCEPT ![job[t].req] = "err"]
    /\ readers' = ReleasedReaders(t)
    /\ writer' = ReleasedWriter(t)
    /\ lastCall' = NoCall
    /\ UNCHANGED <<scriptQ, renderQ, nextReq, handle, files, outerPoisoned,
                   innerPoisoned>>
    /\ UNCHANGED <<deployVars, routeVars, renderVars, serveVars>>

\* the guest callback returns ret: Handle::reset, the borrow is dropped, the
\* argument buffer is freed (a guest export), process_script interprets the
\* result and script_runner sends the render command
GuestReturn(t, ret, beh, a) ==
    /\ pc[t] = "call"
    /\ LET taken == HandleResetTaken(handle[t])
           r == ExportRun(beh, HandleResetLeft(handle[t]), a, files, innerPoisoned)
           res == IF r.outcome = "panic" THEN "panic"
                  ELSE IF r.outcome = "trap" THEN "err"
                  ELSE ScriptResultOf(taken[1], ret)
       IN /\ handle' = [handle EXCEPT ![t] = r.data]
          /\ files' = r.files
          /\ innerPoisoned' = r.poisoned
          /\ lastCall' = [Recorded(beh, "free", HandleResetLeft(handle[t]), r,
                                      job[t].req)
                             EXCEPT !.returned = ReturnOf(job[t].req, ret, handle[t],
                                                          r.outcome = "ok")]
          /\ pc' = [pc EXCEPT ![t] = IF res = "panic" THEN "dead" ELSE "idle"]
          /\ result' = [result EXCEPT ![job[t].req] = res]
          /\ renderQ' = ScriptRunnerSend(renderQ, res, job[t].req, taken, ret)
    /\ job' = [job EXCEPT ![t] = NoJob]
    /\ readers' = ReleasedReaders(t)
    /\ writer' = ReleasedWriter(t)
    /\ UNCHANGED <<scriptQ, nextReq, outerPoisoned>>
    /\ UNCHANGED <<deployVars, routeVars, renderVars, serveVars>>

\* ------------------------------------------------------------------------
\* Deployer: state machine
\* ------------------------------------------------------------------------
NoRequest == [req |-> 0, site |-> "", key |-> None, size_bytes |-> 0]
\* the result of a /request: res is "none", "ok", "err" (malformed or too
\* big), "Invalid signature" or "panic"
ResultOf(res, j, token) == [res |-> res, site |-> j.site, key |-> j.key, token |-> token]
NoUpload ==
    [pc |-> "idle", token |-> "", body |-> <<>>, sent |-> 0, body_len |-> 0,
     appended |-> <<>>, closes |-> <<>>, resp |-> 0, size |-> -1,
     readErr |-> FALSE, inserted |-> FALSE, gone |-> FALSE]

InitDeployRest ==
    /\ dQ = <<>>
    /\ dRenderQ = <<>>
    /\ dNext = 0
    /\ dpc = [t \in Scripters |-> "idle"]
    /\ djob = [t \in Scripters |-> NoRequest]
    /\ dResult = [r \in 1..MaxRequests |-> ResultOf("none", NoRequest, "")]
    /\ adminsLock = 0
    /\ admins = [h \in Hosts |-> None]
    /\ pending = <<>>
    /\ pendingPoisoned = FALSE
    /\ nUploads = 0
    /\ up = [u \in Receivers |-> NoUpload]

InitDeploy ==
    /\ InitDeployRest
    \* main(): sites.insert(Box::new(deployer))
    /\ registry = [h \in Hosts |-> IF h = DeployerHost THEN "Deployer" ELSE "none"]

Init == InitWasm /\ InitDeploy /\ InitRouteIdle /\ InitRender /\ InitServeIdle

\* a map without one key
SitesInsertAlone(sites, host, site) ==
    [h \in DOMAIN sites |-> IF h = host THEN site ELSE "none"]

\* Sites::insert: map.insert_ref(hostname, site), replacing an older entry
SitesInsert(sites, host, site) == [sites EXCEPT ![host] = site]

MapRemove(m, k) == [x \in (DOMAIN m) \ {k} |-> m[x]]

\* process_endpoint, ScriptExec branch, for POST /request: the body is read,
\* parsed by Deployer::parse_json and sent to the script channel
ReceiveRequest(body) ==
    /\ dNext < MaxRequests
    /\ dNext' = dNext + 1
    /\ dQ' = Append(dQ, [req |-> dNext + 1, body |-> body])
    /\ UNCHANGED <<dRenderQ, dpc, djob, dResult, adminsLock, admins, pending,
                   pendingPoisoned, registry, nUploads, up>>
    /\ UNCHANGED <<wasmVars, routeVars, renderVars, serveVars>>

\* Deployer::process_script: the fields of the body and the size check
TakeRequest(t) ==
    /\ dpc[t] = "idle"
    /\ dQ # <<>>
    /\ LET cmd == Head(dQ)
           parsed == ParseRequest(cmd.body)
       IN /\ dQ' = Tail(dQ)
          /\ IF ~parsed.ok
             THEN /\ dResult' = [dResult EXCEPT ![cmd.req] = ResultOf("err", NoRequest, "")]
                  /\ UNCHANGED <<dpc, djob>>
             ELSE /\ dpc' = [dpc EXCEPT ![t] = "lock"]
                  /\ djob' = [djob EXCEPT ![t] =
                        [req |-> cmd.req, site |-> parsed.site, key |-> parsed.key,
                         size_bytes |-> parsed.size_bytes]]
                  /\ UNCHANGED dResult
    /\ UNCHANGED <<dRenderQ, dNext, adminsLock, admins, pending,
                   pendingPoisoned, registry, nUploads, up>>
    /\ UNCHANGED <<wasmVars, routeVars, renderVars, serveVars>>

\* self.admins.lock()
LockAdmins(t) ==
    /\ dpc[t] = "lock"
    /\ adminsLock = 0
    /\ adminsLock' = t
    /\ dpc' = [dpc EXCEPT ![t] = "owner"]
    /\ UNCHANGED <<dQ, dRenderQ, dNext, djob, dResult, admins, pending,
                   pendingPoisoned, registry, nUploads, up>>
    /\ UNCHANGED <<wasmVars, routeVars, renderVars, serveVars>>

\* the ownership check under the admins mutex, and the drop of the guard
CheckOwner(t) ==
    /\ dpc[t] = "owner"
    /\ adminsLock = t
    /\ adminsLock' = 0
    /\ IF admins[djob[t].site] # None
       THEN IF KeyMatches(admins[djob[t].site], djob[t].key)
            THEN /\ dpc' = [dpc EXCEPT ![t] = "reserve"]
                 /\ UNCHANGED <<admins, dResult, djob>>
            ELSE \* "Invalid signature"
                 /\ dpc' = [dpc EXCEPT ![t] = "idle"]
                 /\ dResult' = [dResult EXCEPT ![djob[t].req] =
                                    ResultOf("Invalid signature", djob[t], "")]
                 /\ djob' = [djob EXCEPT ![t] = NoRequest]
                 /\ UNCHANGED admins
       ELSE /\ admins' = [admins EXCEPT ![djob[t].site] = djob[t].key]
            /\ dpc' = [dpc EXCEPT ![t] = "reserve"]
            /\ UNCHANGED <<dResult, djob>>
    /\ UNCHANGED <<dQ, dRenderQ, dNext, pending, pendingPoisoned, registry,
                   nUploads, up>>
    /\ UNCHANGED <<wasmVars, routeVars, renderVars, serveVars>>

\* a token loop that takes the first random number (mutant)
TokenIsFreeAlways(map, token) == TRUE

\* the token loop: `pending_uploads.get(&token).is_none()`
TokenIsFree(map, token) == token \notin DOMAIN map

\* the upload buffer is reserved under a token no pending upload has; the
\* token is the Json result, which script_runner sends to the renderer
ReserveUpload(t, token) ==
    /\ dpc[t] = "reserve"
    /\ IF pendingPoisoned
       THEN \* pending_uploads.write().unwrap()
            /\ dpc' = [dpc EXCEPT ![t] = "dead"]
            /\ dResult' = [dResult EXCEPT ![djob[t].req] = ResultOf("panic", djob[t], "")]
            /\ UNCHANGED <<pending, dRenderQ>>
       ELSE /\ TokenIsFree(pending, token)
            /\ pending' = MapInsert(pending, token,
                  [bytes |-> <<>>, capacity |-> djob[t].size_bytes,
                   site |-> djob[t].site, size |-> djob[t].size_bytes])
            /\ dRenderQ' = Append(dRenderQ, [req |-> djob[t].req, json |-> token])
            /\ dResult' = [dResult EXCEPT ![djob[t].req] = ResultOf("ok", djob[t], token)]
            /\ dpc' = [dpc EXCEPT ![t] = "idle"]
    /\ djob' = [djob EXCEPT ![t] = NoRequest]
    /\ UNCHANGED <<dQ, dNext, adminsLock, admins, pendingPoisoned, registry,
                   nUploads, up>>
    /\ UNCHANGED <<wasmVars, routeVars, renderVars, serveVars>>

\* process_endpoint, Upload branch (segs: the path_vars of the request): the
\* token check
StartUpload(u, segs, body) ==
    /\ nUploads < MaxUploads
    /\ up[u].pc \in {"idle", "done"}
    /\ nUploads' = nUploads + 1
    /\ LET fresh == [NoUpload EXCEPT !.body = body]
       IN IF Len(segs) # 1
          THEN up' = [up EXCEPT ![u] = [fresh EXCEPT !.pc = "done", !.resp = 400]]
          ELSE IF pendingPoisoned       \* pending_uploads.read().unwrap()
          THEN up' = [up EXCEPT ![u] =
                        [fresh EXCEPT !.pc = "dead", !.token = segs[1]]]
          ELSE IF segs[1] \notin DOMAIN pending
          THEN up' = [up EXCEPT ![u] =
                        [fresh EXCEPT !.pc = "done", !.resp = 400,
                                      !.token = segs[1]]]
          ELSE up' = [up EXCEPT ![u] =
                        [fresh EXCEPT !.pc = "reading", !.token = segs[1],
                                      !.body_len = pending[segs[1]].capacity,
                                      !.size = pending[segs[1]].size]]
    /\ UNCHANGED <<dQ, dRenderQ, dNext, dpc, djob, dResult, adminsLock, admins,
                   pending, pendingPoisoned, registry>>
    /\ UNCHANGED <<wasmVars, routeVars, renderVars, serveVars>>

\* one turn of the read loop: reader.read returns len bytes (0 at the end of
\* the body), upload_progress appends them, the expected length is reduced
ReadChunk(u, len) ==
    /\ up[u].pc = "reading"
    /\ up[u].body_len > 0
    /\ len <= Min(Len(up[u].body) - up[u].sent, chunk_size)
    /\ len = 0 => up[u].sent = Len(up[u].body)
    /\ LET slice == SubSeq(up[u].body, up[u].sent + 1, up[u].sent + len)
           tok == up[u].token
       IN IF pendingPoisoned \/ tok \notin DOMAIN pending
          THEN \* read().unwrap() / get(token).unwrap() in upload_progress
               /\ up' = [up EXCEPT ![u].pc = "dead", ![u].sent = @ + len]
               /\ UNCHANGED pending
          ELSE /\ pending' = [pending EXCEPT
                     ![tok].bytes = @ \o slice,
                     ![tok].capacity =
                         VecCapacityAfter(@, Len(pending[tok].bytes), len)]
               /\ up' = [up EXCEPT
                     ![u].sent = @ + len,
                     ![u].appended = @ \o slice,
                     ![u].body_len = IF @ >= len THEN @ - len ELSE @,
                     ![u].pc = IF up[u].body_len >= len THEN "reading" ELSE "abort"]
    /\ UNCHANGED <<dQ, dRenderQ, dNext, dpc, djob, dResult, adminsLock, admins,
                   pendingPoisoned, registry, nUploads>>
    /\ UNCHANGED <<wasmVars, routeVars, renderVars, serveVars>>

\* Deployer::end_of_upload(token, false), then the 400 response
EndOfUploadFailure(u) ==
    LET tok == up[u].token IN
    IF pendingPoisoned
    THEN /\ up' = [up EXCEPT ![u].pc = "dead"]
         /\ UNCHANGED <<pending, pendingPoisoned>>
    ELSE IF tok \notin DOMAIN pending
    THEN \* get(token).unwrap() under the write guard
         /\ up' = [up EXCEPT ![u].pc = "dead"]
         /\ pendingPoisoned' = TRUE
         /\ UNCHANGED pending
    ELSE /\ pending' = [pending EXCEPT ![tok].bytes = <<>>]
         /\ up' = [up EXCEPT ![u].pc = "done", ![u].resp = 400,
                             ![u].closes = Append(@, FALSE)]
         /\ UNCHANGED pendingPoisoned

\* the read loop read more than the expected length
AbortUpload(u) ==
    /\ up[u].pc = "abort"
    /\ EndOfUploadFailure(u)
    /\ UNCHANGED <<dQ, dRenderQ, dNext, dpc, djob, dResult, adminsLock, admins,
                   registry, nUploads>>
    /\ UNCHANGED <<wasmVars, routeVars, renderVars, serveVars>>

\* reader.read returns an error
ReadError(u) ==
    /\ up[u].pc = "reading"
    /\ up[u].body_len > 0
    /\ \E v \in {[up EXCEPT ![u].readErr = TRUE]} :
          LET tok == up[u].token IN
          IF pendingPoisoned
          THEN /\ up' = [v EXCEPT ![u].pc = "dead"]
               /\ UNCHANGED <<pending, pendingPoisoned>>
          ELSE IF tok \notin DOMAIN pending
          THEN /\ up' = [v EXCEPT ![u].pc = "dead"]
               /\ pendingPoisoned' = TRUE
               /\ UNCHANGED pending
          ELSE /\ pending' = [pending EXCEPT ![tok].bytes = <<>>]
               /\ up' = [v EXCEPT ![u].pc = "done", ![u].resp = 400,
                                  ![u].closes = Append(@, FALSE)]
               /\ UNCHANGED pendingPoisoned
    /\ UNCHANGED <<dQ, dRenderQ, dNext, dpc, djob, dResult, adminsLock, admins,
                   registry, nUploads>>
    /\ UNCHANGED <<wasmVars, routeVars, renderVars, serveVars>>

\* the expected length was reached: Deployer::end_of_upload(token, true),
\* Sites::insert of the constructed WasmApp, then the "success" response
FinishUpload(u) ==
    /\ up[u].pc = "reading"
    /\ up[u].body_len = 0
    /\ LET tok == up[u].token IN
       IF pendingPoisoned
       THEN /\ up' = [up EXCEPT ![u].pc = "dead"]
            /\ UNCHANGED <<pending, pendingPoisoned, registry, tls>>
       ELSE IF tok \notin DOMAIN pending
       THEN \* remove(token).unwrap() under the write guard
            /\ up' = [up EXCEPT ![u].pc = "dead"]
            /\ pendingPoisoned' = TRUE
            /\ UNCHANGED <<pending, registry, tls>>
       ELSE LET built == BundleOutcome(pending[tok].bytes)
                host == pending[tok].site
            IN /\ pending' = MapRemove(pending, tok)
               /\ UNCHANGED pendingPoisoned
               /\ registry' = IF built = "ok"
                              THEN SitesInsert(registry, host, "WasmApp")
                              ELSE registry
               /\ tls' = IF built = "ok"
                         THEN [tls EXCEPT ![host] =
                                  PrepareTls(WasmAppNew(host), TlsCount(sitesThreads))]
                         ELSE tls
               /\ up' = [up EXCEPT
                     ![u].closes = Append(@, TRUE),
                     ![u].gone = TRUE,
                     ![u].inserted = (built = "ok"),
                     ![u].pc = IF built = "panic" THEN "dead" ELSE "done",
                     ![u].resp = IF built = "panic" THEN 0 ELSE 200]
    /\ UNCHANGED <<dQ, dRenderQ, dNext, dpc, djob, dResult, adminsLock, admins,
                   nUploads>>
    /\ UNCHANGED <<config, sitesThreads, guards, spc, access, jsons>>
    /\ UNCHANGED <<wasmVars, routeVars, renderVars>>

\* ------------------------------------------------------------------------
\* Route resolution: the walk
\* ------------------------------------------------------------------------
DirChoiceWildcardFirst(map, step) ==
    IF step \in DOMAIN map.items THEN "item"
    ELSE IF map.wildcard # NoEndpoint THEN "wildcard"
    ELSE IF map.default # NoEndpoint /\ tree[map.default].kind = "Static" THEN "default"
    ELSE "none"

\* the Dir step of the segment loop: what the map offers for the segment
DirChoice(map, step) ==
    IF step \in DOMAIN map.items THEN "item"
    ELSE IF map.default # NoEndpoint /\ tree[map.default].kind = "Static" THEN "default"
    ELSE IF map.wildcard # NoEndpoint THEN "wildcard"
    ELSE "none"

ContinuesItemOnly(choice) == choice = "item"

\* the branches of the Dir step that end with `continue`
Continues(choice) == choice \in {"item", "wildcard"}

PushVarFront(captured, step) == <<step>> \o captured

\* path_vars.push(step.into())
PushVar(captured, step) == Append(captured, step)

StaticAppendReset(override, p, step) == SomeOverride(p \o "/" \o step)

\* a Static step that starts the override from the empty string (mutant)
StaticAppendBare(override, p, step) ==
    SomeOverride((IF override.some THEN override.v ELSE "") \o "/" \o step)

\* the Static step: path_override.get_or_insert_with(p), then "/" and the step
StaticAppend(override, p, step) ==
    SomeOverride((IF override.some THEN override.v ELSE p) \o "/" \o step)

\* one turn of the segment loop
WalkSegment ==
    /\ rpc = "walk"
    /\ pos < Len(path)
    /\ LET step == path[pos + 1]
           e == tree[endpoint]
           choice == IF e.kind = "Dir" THEN DirChoice(e, step) ELSE "none"
           next == CASE e.kind = "Dir" /\ choice = "item" -> e.items[step]
                     [] e.kind = "Dir" /\ choice = "default" -> e.default
                     [] e.kind = "Dir" /\ choice = "wildcard" -> e.wildcard
                     [] OTHER -> endpoint
           continues == e.kind = "Upload" \/ (e.kind = "Dir" /\ Continues(choice))
           absorbs == ~continues /\ tree[next].kind = "Static"
           breaks == ~continues /\ ~absorbs
           pushes == e.kind = "Upload" \/ (e.kind = "Dir" /\ choice = "wildcard")
           tag == CASE e.kind = "Upload" -> "upload"
                    [] e.kind = "Dir" /\ choice # "none" -> choice
                    [] absorbs -> "static"
                    [] OTHER -> "none"
           after == IF breaks THEN NotFound ELSE next
       IN /\ path_vars' = IF pushes THEN PushVar(path_vars, step) ELSE path_vars
          /\ path_override' =
                IF absorbs THEN StaticAppend(path_override, tree[next].path, step)
                ELSE path_override
          /\ endpoint' = after
          /\ pos' = pos + 1
          /\ rpc' = IF breaks \/ pos + 1 = Len(path) THEN "trail" ELSE "walk"
          /\ how' = Append(how, [tag |-> tag, from |-> endpoint, to |-> after,
                                 absorbed |-> absorbs])
    /\ UNCHANGED <<hostHeader, siteOpt, written, sent, env, tree, path, answer>>
    /\ UNCHANGED <<wasmVars, deployVars, renderVars, serveVars>>

\* a trailing loop that falls back on the wildcard of a Dir (mutant)
TrailNextWildcard(map) ==
    IF map.default # NoEndpoint THEN map.default
    ELSE IF map.wildcard # NoEndpoint THEN map.wildcard
    ELSE NotFound

\* `while let Endpoint::Dir(map) = endpoint`: the default, or on_404
TrailNext(map) == IF map.default # NoEndpoint THEN map.default ELSE NotFound

\* one turn of the loop that resolves a trailing Dir through its default
TrailingDir ==
    /\ rpc = "trail"
    /\ tree[endpoint].kind = "Dir"
    /\ endpoint' = TrailNext(tree[endpoint])
    \* `continue` after a default, `break` after on_404
    /\ rpc' = IF tree[endpoint].default # NoEndpoint THEN "trail" ELSE "dispatch"
    /\ UNCHANGED <<hostHeader, siteOpt, written, sent, env, tree, path, pos,
                   path_vars, path_override, how, answer>>
    /\ UNCHANGED <<wasmVars, deployVars, renderVars, serveVars>>

\* the page of Endpoint::Error(code)
ErrorPage(code) == [what |-> "error", status |-> code, asset |-> ""]

\* a static asset served with status 200
Served(a) == [what |-> "asset", status |-> 200, asset |-> a]

\* what a call of process_endpoint did: the responses it wrote, the
\* ScriptCommands it sent, whether it went on reading an upload, whether the
\* receiver thread panicked
NoEffect == [written |-> <<>>, sent |-> <<>>, upload |-> FALSE, panic |-> FALSE]
Responded(r) == [NoEffect EXCEPT !.written = <<r>>]
Enqueued(cmd) == [NoEffect EXCEPT !.sent = <<cmd>>]

\* the guest library's __parse_json: a handle, or 0 for a text that is not JSON
GuestParseJson(valid) == IF valid THEN 1 ELSE 0

\* WasmApp::parse_json / WasmThread::parse_json: __rs_malloc, write_mem,
\* __parse_json and __rs_free on the receiver's instance; a trap is an Err,
\* anything the guest returns is Ok
WasmParseJson(f) ==
    IF f.guest = "trap" THEN [ok |-> FALSE, ptr |-> 0]
    ELSE [ok |-> TRUE, ptr |-> GuestParseJson(f.valid)]

\* Deployer::parse_json: JsonFile::new on the host
DeployerParseJson(f) ==
    IF f.valid THEN [ok |-> TRUE, ptr |-> 1] ELSE [ok |-> FALSE, ptr |-> 0]

\* Site::parse_json
ParseJson(s, f) == IF s = "Deployer" THEN DeployerParseJson(f) ELSE WasmParseJson(f)

\* Site::open_static: the Deployer has every asset, a WasmApp those of its
\* bundle
OpenStatic(s, asset, f) ==
    IF s = "Deployer" THEN TRUE
    ELSE IF tree[NotFound].kind = "Static" /\ asset = tree[NotFound].path THEN f.hit404
    ELSE f.hit

\* Site::check_upload_token: "some", "none", or "panic" on the poisoned lock
CheckUploadToken(s, token) ==
    IF s # "Deployer" THEN "none"
    ELSE IF pendingPoisoned THEN "panic"
    ELSE IF token \in DOMAIN pending THEN "some" ELSE "none"

\* the ScriptCommand process_endpoint sends
ScriptCommand(s, e, pvars, body) ==
    [site |-> s, script_name |-> e.path, read_only |-> e.read_only,
     path_vars |-> pvars, body |-> body,
     request |-> [host |-> hostHeader, url |-> path]]

\* a Static branch that never tries on_404 (mutant)
MissingStaticNoRetry(e) == FALSE

\* process_endpoint on a Static whose asset is missing: whether on_404 is tried
MissingStaticRetries(e) == tree[NotFound] # e

\* process_endpoint(site, path_vars, path_override, request, endpoint, ..)
RECURSIVE process_endpoint(_, _, _, _, _)
process_endpoint(s, pvars, override, e, f) ==
    CASE e.kind = "ScriptExec" ->
           IF s = "none" THEN [NoEffect EXCEPT !.panic = TRUE]     \* site.unwrap()
           ELSE IF f.reads /\ ParseJson(s, f).ok
           THEN Enqueued(ScriptCommand(s, e, pvars, ParseJson(s, f).ptr))
           ELSE process_endpoint(s, <<>>, NoOverride, ErrorEndpoint(400), f)
      [] e.kind = "Static" ->
           LET asset == IF override.some THEN override.v ELSE e.path IN
           IF s = "none" THEN [NoEffect EXCEPT !.panic = TRUE]     \* site.unwrap()
           ELSE IF OpenStatic(s, asset, f) THEN Responded(Served(asset))
           ELSE IF MissingStaticRetries(e)
           THEN process_endpoint(s, <<>>, NoOverride, tree[NotFound], f)
           ELSE process_endpoint(s, <<>>, NoOverride, ErrorEndpoint(500), f)
      [] e.kind = "Upload" ->
           IF s = "none" THEN [NoEffect EXCEPT !.panic = TRUE]     \* site.unwrap()
           ELSE IF Len(pvars) = 1 /\ CheckUploadToken(s, pvars[1]) = "panic"
           THEN [NoEffect EXCEPT !.panic = TRUE]
           ELSE IF Len(pvars) = 1 /\ CheckUploadToken(s, pvars[1]) = "some"
           THEN [NoEffect EXCEPT !.upload = TRUE]
           ELSE process_endpoint(s, <<>>, NoOverride, ErrorEndpoint(400), f)
      [] e.kind = "Error" -> Responded(ErrorPage(e.code))
      [] OTHER -> process_endpoint(s, <<>>, NoOverride, ErrorEndpoint(500), f)

\* the outcome of the request in one record
Summary(r) ==
    IF r.panic THEN [what |-> "panic", status |-> 0, asset |-> ""]
    ELSE IF r.upload THEN [what |-> "upload", status |-> 0, asset |-> ""]
    ELSE IF r.sent # <<>> THEN [what |-> "script", status |-> 0, asset |-> ""]
    ELSE r.written[Len(r.written)]

\* the inputs that matter to the dispatch of e (the others stay at a default)
InputsFor(e) ==
    {f \in DispatchInputs :
        /\ ("ScriptExec" \notin {e.kind, tree[NotFound].kind})
              => (f.reads /\ f.valid /\ f.guest = "ok")
        /\ e.kind # "Static" => (f.hit /\ f.hit404)
        /\ f.hit => f.hit404
        /\ ~f.reads => (f.valid /\ f.guest = "ok")
        /\ siteOpt = "Deployer" => f.guest = "ok"}

\* the endpoint is resolved: process_endpoint is called with it
CallProcessEndpoint(f) ==
    /\ siteOpt \notin {"unset", "none"}
    /\ rpc = "dispatch" \/ (rpc = "trail" /\ tree[endpoint].kind # "Dir")
    /\ rpc' = "done"
    /\ LET r == process_endpoint(siteOpt, path_vars, path_override, tree[endpoint], f)
       IN /\ written' = r.written
          /\ sent' = r.sent
          /\ answer' = Summary(r)
    /\ env' = f
    /\ UNCHANGED <<hostHeader, siteOpt, tree, path, pos, endpoint, path_vars,
                   path_override, how>>
    /\ UNCHANGED <<wasmVars, deployVars, renderVars, serveVars>>

\* the endpoint request_waiter dispatches when no site has the host
UnknownHost == ErrorEndpoint(502)

\* the Host header is looked up; an unknown host is answered at once
LookupHost ==
    /\ rpc = "recv"
    /\ siteOpt' = SitesGet(registry, hostHeader)
    /\ IF siteOpt' # "none"
       THEN /\ rpc' = IF path = <<>> THEN "trail" ELSE "walk"
            /\ UNCHANGED <<written, sent, answer>>
       ELSE LET r == process_endpoint("none", <<>>, NoOverride, UnknownHost, NoInput)
            IN /\ written' = r.written
               /\ sent' = r.sent
               /\ answer' = Summary(r)
               /\ rpc' = "done"
    /\ UNCHANGED <<hostHeader, env, tree, path, pos, endpoint, path_vars,
                   path_override, how>>
    /\ UNCHANGED <<wasmVars, deployVars, renderVars, serveVars>>

\* ------------------------------------------------------------------------
\* Renderer stage (renderer.rs): actions
\* ------------------------------------------------------------------------
\* the members of the one value of the template WasmApp::render_template
\* compiles, "Hello {{ user.name }}!"
TemplateMembers == <<"user", "name">>

\* WasmApp::render_template: the closure resolves a value only when it has a
\* single member, which it looks up in the parameters
WasmRenderTemplate(parameters) ==
    IF Len(TemplateMembers) = 1 /\ TemplateMembers[1] \in DOMAIN parameters
    THEN [outcome |-> "ok", body |-> "Hello " \o parameters[TemplateMembers[1]] \o "!"]
    ELSE [outcome |-> "err", body |-> ""]

\* Deployer::render_template
DeployerRenderTemplate(parameters) == [outcome |-> "err", body |-> ""]

\* WasmThread::dump_json on the instance whose store holds h.  dumpBeh is
\* what the guest's __dump_json, __json_dump_ptr and __json_dump_len do,
\* freeBeh what its __free_json_dump does; inRange and utf8 say whether the
\* pointer and length they return lie in the memory and delimit UTF-8
DumpJson(h, dumpBeh, freeBeh, a, inRange, utf8, fs, poisoned) ==
    LET d == ExportRun(dumpBeh, h, a, fs, poisoned)
        f == ExportRun(freeBeh, d.data, a, d.files, d.poisoned)
    IN IF d.outcome # "ok" THEN [d EXCEPT !.msg = ""]
       ELSE IF ~inRange \/ ~utf8 THEN [d EXCEPT !.outcome = "trap", !.msg = ""]
       ELSE IF f.outcome # "ok" THEN [f EXCEPT !.msg = ""]
       ELSE [f EXCEPT !.msg = a.json]

\* renderer, the final match: 200 with the body, or 500 "Renderer error"
Respond(res, body) ==
    IF res = "ok" THEN [status |-> 200, body |-> body]
    ELSE [status |-> 500, body |-> "Renderer error"]

\* script_runner sends a render command for a new request
SendRender(site, kind, parameters) ==
    /\ rNext < MaxRenders
    /\ rNext' = rNext + 1
    /\ rendersRx' = Append(rendersRx, [req |-> rNext + 1, site |-> site, kind |-> kind,
                                       parameters |-> parameters])
    /\ UNCHANGED <<rhandle, rlive, rresult, responses>>
    /\ UNCHANGED <<wasmVars, deployVars, routeVars, serveVars>>

\* renderer takes a Template command: render_template, then the response
RenderTemplateJob(t) ==
    /\ rlive[t] = "idle"
    /\ rendersRx # <<>>
    /\ Head(rendersRx).kind = "Template"
    /\ LET j == Head(rendersRx)
           r == IF j.site = "WasmApp" THEN WasmRenderTemplate(j.parameters)
                ELSE DeployerRenderTemplate(j.parameters)
       IN /\ rendersRx' = Tail(rendersRx)
          /\ rresult' = [rresult EXCEPT ![j.req] = r.outcome]
          /\ responses' = [responses EXCEPT
                ![j.req] = Append(@, Respond(r.outcome, r.body))]
    /\ UNCHANGED <<rNext, rhandle, rlive>>
    /\ UNCHANGED <<wasmVars, deployVars, routeVars, serveVars>>

\* renderer takes a Json command: dump_json on the instance of this thread
\* (the Deployer dumps on the host), then the response.  A panic inside the
\* site call unwinds the thread and the request is dropped
RenderJsonJob(t, dumpBeh, freeBeh, a, inRange, utf8) ==
    /\ rlive[t] = "idle"
    /\ rendersRx # <<>>
    /\ Head(rendersRx).kind = "Json"
    /\ LET j == Head(rendersRx)
           r == IF j.site = "WasmApp"
                THEN DumpJson(rhandle[t], dumpBeh, freeBeh, a, inRange, utf8,
                              files, innerPoisoned)
                ELSE [ImportOk(rhandle[t], 0, files, innerPoisoned)
                         EXCEPT !.msg = a.json]
           res == IF r.outcome = "trap" THEN "err" ELSE r.outcome
       IN /\ rendersRx' = Tail(rendersRx)
          /\ rhandle' = [rhandle EXCEPT ![t] = r.data]
          /\ files' = r.files
          /\ innerPoisoned' = r.poisoned
          /\ rresult' = [rresult EXCEPT ![j.req] = res]
          /\ rlive' = [rlive EXCEPT ![t] = IF res = "panic" THEN "dead" ELSE "idle"]
          /\ responses' = [responses EXCEPT
                ![j.req] = IF res = "panic" THEN @
                           ELSE Append(@, Respond(res, r.msg))]
    /\ UNCHANGED rNext
    /\ UNCHANGED <<scriptQ, renderQ, nextReq, pc, job, handle, readers, writer,
                   outerPoisoned, result, lastCall>>
    /\ UNCHANGED <<deployVars, routeVars, serveVars>>

NextRender ==
    \/ \E site \in SiteKinds, kind \in {"Template", "Json"}, ps \in ParamMaps :
          SendRender(site, kind, ps)
    \/ \E t \in Renderers : RenderTemplateJob(t)
    \/ \E t \in Renderers, dumpBeh \in ExportBehaviours, freeBeh \in LibraryExports,
          inRange \in BOOLEAN, utf8 \in BOOLEAN :
          \E a \in ArgsFor(dumpBeh, LibraryExports) :
             RenderJsonJob(t, dumpBeh, freeBeh, a, inRange, utf8)

\* the renderer stage of a server whose tenants are arbitrary WASM modules
SpecRender == Init /\ [][NextRender]_vars

\* ------------------------------------------------------------------------
\* Server start: main() and serve()
\* ------------------------------------------------------------------------
\* get_num(prop) as main() calls it for each local: Some(value) or a panic
get_num(file, prop) == file[prop]

\* the property main() reads script_threads from
ScriptThreadsProp == "request_threads"

\* main(): reads the three counts, panics on a property that is not a
\* number, and hands Sites::new(..) to serve(). The other properties
\* (max_service_cpio_mb, hostname, listen_addr) are taken as valid.
Main ==
    /\ spc = "main"
    /\ LET request_threads == get_num(config, "request_threads")
           script_threads == get_num(config, ScriptThreadsProp)
           render_threads == get_num(config, "render_threads")
       IN IF request_threads.isNum /\ script_threads.isNum /\ render_threads.isNum
          THEN /\ sitesThreads' = SitesNew(request_threads.value, script_threads.value,
                                    render_threads.value)
               /\ spc' = "serve"
          ELSE /\ spc' = "panicked"
               /\ UNCHANGED sitesThreads
    /\ UNCHANGED <<config, guards, tls, access, jsons>>
    /\ UNCHANGED <<wasmVars, deployVars, routeVars, renderVars>>

Spawn(fn) ==
    /\ guards' = Append(guards, [fn |-> fn, tid |-> Len(guards)])
    /\ UNCHANGED <<config, sitesThreads, spc, tls, access, jsons>>
    /\ UNCHANGED <<wasmVars, deployVars, routeVars, renderVars>>

\* serve(): for tid in 0..sites.request_threads
SpawnRequestWaiter ==
    /\ spc = "serve"
    /\ Len(guards) < sitesThreads.request_threads
    /\ Spawn("request_waiter")

\* serve(): for tid in 0..sites.script_threads, tid offset by request_threads
SpawnScriptRunner ==
    /\ spc = "serve"
    /\ Len(guards) >= sitesThreads.request_threads
    /\ Len(guards) < sitesThreads.request_threads + sitesThreads.script_threads
    /\ Spawn("script_runner")

\* serve(): for tid in 0..sites.render_threads, tid offset by both
SpawnRenderer ==
    /\ spc = "serve"
    /\ Len(guards) >= sitesThreads.request_threads + sitesThreads.script_threads
    /\ Len(guards) < total_threads(sitesThreads)
    /\ Spawn("renderer")

\* serve(): every thread is spawned, main joins them
JoinGuards ==
    /\ spc = "serve"
    /\ Len(guards) = total_threads(sitesThreads)
    /\ spc' = "join"
    /\ UNCHANGED <<config, sitesThreads, guards, tls, access, jsons>>
    /\ UNCHANGED <<wasmVars, deployVars, routeVars, renderVars>>

\* the server is started with any configuration file
InitServe ==
    /\ InitWasm
    /\ InitDeploy
    /\ InitRouteIdle
    /\ InitRender
    /\ config \in ConfigFiles
    /\ sitesThreads = SitesNew(0, 0, 0)
    /\ guards = <<>>
    /\ spc = "main"
    /\ tls = TlsOf(registry, sitesThreads)
    /\ access = NoAccess
    /\ jsons = <<>>

NextServe ==
    \/ Main
    \/ SpawnRequestWaiter
    \/ SpawnScriptRunner
    \/ SpawnRenderer
    \/ JoinGuards

SpecServe == InitServe /\ [][NextServe]_vars

\* end_of_upload(token, true) of an upload whose bytes build a WasmApp for
\* host: Sites::insert prepares the instances and registers the site under
\* the write guard of the map
InsertSite(host) ==
    /\ Spawned("request_waiter") # {}
    /\ Spawned("script_runner") # {}
    /\ tls' = [tls EXCEPT ![host] =
                  PrepareTls(WasmAppNew(host), TlsCount(sitesThreads))]
    /\ registry' = SitesInsert(registry, host, "WasmApp")
    /\ UNCHANGED <<config, sitesThreads, guards, spc, access, jsons>>
    /\ UNCHANGED <<dQ, dRenderQ, dNext, dpc, djob, dResult, adminsLock, admins,
                   pending, pendingPoisoned, nUploads, up>>
    /\ UNCHANGED <<wasmVars, routeVars, renderVars>>

\* the site call each pipeline function makes with its tid
SiteCallOf(fn) ==
    CASE fn = "request_waiter" -> "parse_json"
      [] fn = "script_runner" -> "process_script"
      [] OTHER -> "dump_json"

\* WasmApp::parse_json / process_script / dump_json on the site of host, by
\* the i-th thread spawned: threads[thread_index]
IndexThreads(i, host) ==
    /\ i \in 1..Len(guards)
    /\ registry[host] = "WasmApp"
    /\ access' = [some |-> TRUE, fn |-> SiteCallOf(guards[i].fn),
                  tid |-> guards[i].tid, host |-> host,
                  inBounds |-> guards[i].tid < Len(tls[host])]
    /\ UNCHANGED <<config, sitesThreads, guards, spc, tls, jsons>>
    /\ UNCHANGED <<wasmVars, deployVars, routeVars, renderVars>>

\* the server is started with any configuration file, tenants are uploaded
\* and the pipeline threads call into them
NextTls ==
    \/ Main
    \/ SpawnRequestWaiter
    \/ SpawnScriptRunner
    \/ SpawnRenderer
    \/ JoinGuards
    \/ \E host \in Hosts : InsertSite(host)
    \/ \E i \in 1..(3 * MaxThreads), host \in Hosts : IndexThreads(i, host)

SpecTls == InitServe /\ [][NextTls]_vars

\* the instance of the site of host that the i-th thread spawned locks
InstanceOf(i, host) == tls[host][guards[i].tid + 1]

\* the handles of a kind that no instance has dereferenced yet
Unconsumed(kind) ==
    {k \in 1..Len(jsons) : jsons[k].kind = kind /\ jsons[k].uses = <<>>}

\* process_endpoint, ScriptExec branch, on receiver i for a tenant:
\* site.parse_json(&content, tid) allocates the body in the instance of the
\* receiver and the handle goes into the ScriptCommand
ParseBody(i, host) ==
    /\ i \in 1..Len(guards)
    /\ guards[i].fn = "request_waiter"
    /\ registry[host] = "WasmApp"
    /\ Len(jsons) < MaxJsons
    /\ jsons' = Append(jsons, [kind |-> "body", host |-> host,
                               by |-> InstanceOf(i, host), uses |-> <<>>])
    /\ UNCHANGED <<config, sitesThreads, guards, spc, tls, access>>
    /\ UNCHANGED <<wasmVars, deployVars, routeVars, renderVars>>

\* script_runner i: site.process_script(.., cmd.body, tid) runs the callback
\* in the instance of the script thread; the callback reads the body handle
\* and, when it returns a JSON result, allocates it in its own instance
RunCallback(i, k, returnsJson) ==
    /\ i \in 1..Len(guards)
    /\ guards[i].fn = "script_runner"
    /\ k \in Unconsumed("body")
    /\ LET host == jsons[k].host
           used == [jsons EXCEPT ![k].uses = Append(@, InstanceOf(i, host))]
       IN jsons' = IF returnsJson /\ Len(jsons) < MaxJsons
                   THEN Append(used, [kind |-> "result", host |-> host,
                                      by |-> InstanceOf(i, host), uses |-> <<>>])
                   ELSE used
    /\ UNCHANGED <<config, sitesThreads, guards, spc, tls, access>>
    /\ UNCHANGED <<wasmVars, deployVars, routeVars, renderVars>>

\* renderer i: site.dump_json(json_body, tid) passes the result handle to
\* __dump_json of the instance of the renderer
DumpResult(i, k) ==
    /\ i \in 1..Len(guards)
    /\ guards[i].fn = "renderer"
    /\ k \in Unconsumed("result")
    /\ jsons' = [jsons EXCEPT ![k].uses = Append(@, InstanceOf(i, jsons[k].host))]
    /\ UNCHANGED <<config, sitesThreads, guards, spc, tls, access>>
    /\ UNCHANGED <<wasmVars, deployVars, routeVars, renderVars>>

\* the server is started, a tenant is uploaded, and requests to its script
\* routes pass their JSON handles along the pipeline
NextJson ==
    \/ Main
    \/ SpawnRequestWaiter
    \/ SpawnScriptRunner
    \/ SpawnRenderer
    \/ JoinGuards
    \/ \E host \in Hosts : InsertSite(host)
    \/ \E i \in 1..(3 * MaxThreads), host \in Hosts : ParseBody(i, host)
    \/ \E i \in 1..(3 * MaxThreads), k \in 1..MaxJsons, returnsJson \in BOOLEAN :
          RunCallback(i, k, returnsJson)
    \/ \E i \in 1..(3 * MaxThreads), k \in 1..MaxJsons : DumpResult(i, k)

SpecJson == InitServe /\ [][NextJson]_vars

\* a request for a known host arrives: any route tree, any path
InitRoute ==
    /\ InitWasm
    /\ InitDeployRest
    /\ registry = TenantRegistry
    /\ InitRender
    /\ InitServeIdle
    /\ hostHeader = <<"a.com">>
    /\ siteOpt = SitesGet(registry, hostHeader)
    /\ written = <<>>
    /\ sent = <<>>
    /\ env = NoInput
    /\ tree \in Trees
    /\ path \in Paths
    /\ pos = 0
    /\ endpoint = Root
    /\ path_vars = <<>>
    /\ path_override = NoOverride
    /\ rpc = IF path = <<>> THEN "trail" ELSE "walk"
    /\ how = <<>>
    /\ answer = NoAnswer

NextRoute ==
    \/ WalkSegment
    \/ TrailingDir
    \/ \E f \in InputsFor(tree[endpoint]) : CallProcessEndpoint(f)

SpecRoute == InitRoute /\ [][NextRoute]_vars

\* the endpoints a tenant's on_404 may hold
NotFoundEndpoints ==
    {Leaf("Static", "404"), Leaf("Static", "p"), ScriptExec(FALSE, "nf"),
     Dir(NoEndpoint, NoEndpoint, NoEndpoint)}

\* the route trees of the tenant a.com
TenantTrees ==
    {MkSite(rd, rw, ri, sd, NoEndpoint, NoEndpoint, on404) :
        rd \in {NoEndpoint, SubDir, StaticLeaf},
        rw \in {NoEndpoint, ScriptLeaf, StaticLeaf},
        ri \in {NoEndpoint, SubDir, ScriptLeaf, UploadLeaf},
        sd \in {NoEndpoint, StaticLeaf, ScriptLeaf},
        on404 \in NotFoundEndpoints}

\* Deployer::new: routes and on_404
DeployerRoutes ==
    [n \in Root..NotFound |->
        CASE n = Root ->
               [Dir(NoEndpoint, NoEndpoint, NoEndpoint) EXCEPT
                   !.items = [k \in {"upload", "request"} |->
                                 IF k = "upload" THEN UploadLeaf ELSE ScriptLeaf]]
          [] n = ScriptLeaf -> ScriptExec(FALSE, "_")
          [] n = UploadLeaf -> Leaf("Upload", "")
          [] OTHER -> Leaf("Static", "_")]

\* the URLs sent to the deployer
DeployerPaths == UNION {[1..n -> {"upload", "request", "1f"}] : n \in 0..MaxPath}

\* a request arrives with any Host header; the tree is the one of the site
\* the header names
InitRequest ==
    /\ InitWasm
    /\ InitDeployRest
    /\ registry = TenantRegistry
    /\ InitRender
    /\ InitServeIdle
    /\ hostHeader \in HostHeaders
    /\ siteOpt = "unset"
    /\ written = <<>>
    /\ sent = <<>>
    /\ env = NoInput
    /\ CASE SitesGet(registry, hostHeader) = "WasmApp" ->
                tree \in TenantTrees /\ path \in Paths
         [] SitesGet(registry, hostHeader) = "Deployer" ->
                tree = DeployerRoutes /\ path \in DeployerPaths
         [] OTHER ->
                /\ tree = MkTree(NoEndpoint, NoEndpoint, NoEndpoint,
                                 NoEndpoint, NoEndpoint, NoEndpoint)
                /\ path \in Paths
    /\ pos = 0
    /\ endpoint = Root
    /\ path_vars = <<>>
    /\ path_override = NoOverride
    /\ rpc = "recv"
    /\ how = <<>>
    /\ answer = NoAnswer

NextRequest ==
    \/ LookupHost
    \/ WalkSegment
    \/ TrailingDir
    \/ \E f \in InputsFor(tree[endpoint]) : CallProcessEndpoint(f)

SpecRequest == InitRequest /\ [][NextRequest]_vars

\* the scheduler lets the receiver run
SpecRequestFair == SpecRequest /\ WF_vars(NextRequest)

\* the /request route of the Deployer under every kind of body
NextDeploy ==
    \/ \E body \in RequestBodies : ReceiveRequest(body)
    \/ \E t \in Scripters : TakeRequest(t)
    \/ \E t \in Scripters : LockAdmins(t)
    \/ \E t \in Scripters : CheckOwner(t)
    \/ \E t \in Scripters, token \in TokenSpace : ReserveUpload(t, token)

SpecDeploy == Init /\ [][NextDeploy]_vars

\* the Deployer under every kind of upload, with /requests that open a session
NextUpload ==
    \/ \E body \in SessionRequests : ReceiveRequest(body)
    \/ \E t \in Scripters : TakeRequest(t)
    \/ \E t \in Scripters : LockAdmins(t)
    \/ \E t \in Scripters : CheckOwner(t)
    \/ \E t \in Scripters, token \in TokenSpace : ReserveUpload(t, token)
    \/ \E u \in Receivers, segs \in UploadPaths, body \in UploadBodies :
          StartUpload(u, segs, body)
    \/ \E u \in Receivers, len \in 0..MaxBody : ReadChunk(u, len)
    \/ \E u \in Receivers : AbortUpload(u)
    \/ \E u \in Receivers : ReadError(u)
    \/ \E u \in Receivers : FinishUpload(u)

SpecUpload == Init /\ [][NextUpload]_vars

\* what receiver u does by itself once the token was accepted: a read of
\* the body that succeeds, and the close of the session
ReceiverStep(u) ==
    \/ \E len \in 0..MaxBody : ReadChunk(u, len)
    \/ AbortUpload(u)
    \/ FinishUpload(u)

\* the scheduler runs every receiver
SpecUploadFair == SpecUpload /\ \A u \in Receivers : WF_vars(ReceiverStep(u))

\* the /request bodies that open a session, for a tenant's hostname and for
\* the hostname the deployer itself is bound to
AnySessionRequests ==
    SessionRequests \cup
    {[site |-> Str(DeployerHost), key |-> Str(HexKey("f")), size_bytes |-> Str(<<"2">>)]}

\* the Deployer under /requests that name any hostname, and their uploads
NextUploadAny ==
    \/ \E body \in AnySessionRequests : ReceiveRequest(body)
    \/ \E t \in Scripters : TakeRequest(t)
    \/ \E t \in Scripters : LockAdmins(t)
    \/ \E t \in Scripters : CheckOwner(t)
    \/ \E t \in Scripters, token \in TokenSpace : ReserveUpload(t, token)
    \/ \E u \in Receivers, segs \in UploadPaths, body \in UploadBodies :
          StartUpload(u, segs, body)
    \/ \E u \in Receivers, len \in 0..MaxBody : ReadChunk(u, len)
    \/ \E u \in Receivers : AbortUpload(u)
    \/ \E u \in Receivers : ReadError(u)
    \/ \E u \in Receivers : FinishUpload(u)

SpecUploadAny == Init /\ [][NextUploadAny]_vars

\* the key decode_hex yields for sixty-four "f"
OwnerKey == [i \in 1..KeyBytes |-> 255]

\* what two uploads racing on one token leave behind: the session of a.com
\* was approved, one receiver removed the entry, the other found it missing
\* in end_of_upload and panicked under the write guard of pending_uploads
RaceLeftovers ==
    /\ dQ = <<>>
    /\ dpc = [t \in Scripters |-> "idle"]
    /\ djob = [t \in Scripters |-> NoRequest]
    /\ adminsLock = 0
    /\ admins = [h \in Hosts |-> IF h = "a.com" THEN OwnerKey ELSE None]
    /\ pending = <<>>
    /\ pendingPoisoned = TRUE
    /\ registry = [h \in Hosts |-> IF h = DeployerHost THEN "Deployer" ELSE "none"]
    /\ \E u \in Receivers :
          /\ up[u].pc = "dead"
          /\ \A v \in Receivers \ {u} : up[v].pc = "done"

\* the deployer in that state, its receivers waiting for requests
InitDeployLate ==
    /\ dQ = <<>>
    /\ dRenderQ = <<>>
    /\ dNext = 0
    /\ dpc = [t \in Scripters |-> "idle"]
    /\ djob = [t \in Scripters |-> NoRequest]
    /\ dResult = [r \in 1..MaxRequests |-> ResultOf("none", NoRequest, "")]
    /\ adminsLock = 0
    /\ admins = [h \in Hosts |-> IF h = "a.com" THEN OwnerKey ELSE None]
    /\ pending = <<>>
    /\ pendingPoisoned = TRUE
    /\ registry = [h \in Hosts |-> IF h = DeployerHost THEN "Deployer" ELSE "none"]
    /\ nUploads = 0
    /\ up = [u \in Receivers |->
                IF u = NReceivers THEN [NoUpload EXCEPT !.pc = "dead"] ELSE NoUpload]

InitUploadLate ==
    /\ InitWasm
    /\ InitDeploy \/ InitDeployLate
    /\ InitRouteIdle
    /\ InitRender
    /\ InitServeIdle

SpecUploadLate == InitUploadLate /\ [][NextUpload]_vars

\* tenants built with the guest library
Next ==
    \/ \E ro \in BOOLEAN : EnqueueScript(ro)
    \/ \E t \in Scripters, beh \in LibraryExports, known \in BOOLEAN :
          \E a \in ArgsFor(beh, LibraryExports) : TakeJob(t, beh, a, known)
    \/ \E t \in Scripters : BorrowAndPrepare(t)
    \/ \E t \in Scripters, fn \in ImportNames :
          \E a \in ArgsFor(fn, LibraryExports) : CallImport(t, fn, a)
    \/ \E t \in Scripters : GuestTrap(t)
    \/ \E t \in Scripters, ret \in ReturnValues, beh \in LibraryExports :
          \E a \in ArgsFor(beh, LibraryExports) : GuestReturn(t, ret, beh, a)

Spec == Init /\ [][Next]_vars

\* tenants that are arbitrary WASM modules
NextAnyGuest ==
    \/ \E ro \in BOOLEAN : EnqueueScript(ro)
    \/ \E t \in Scripters, beh \in ExportBehaviours, known \in BOOLEAN :
          \E a \in ArgsFor(beh, ExportBehaviours) : TakeJob(t, beh, a, known)
    \/ \E t \in Scripters : BorrowAndPrepare(t)
    \/ \E t \in Scripters, fn \in ImportNames :
          \E a \in ArgsFor(fn, ExportBehaviours) : CallImport(t, fn, a)
    \/ \E t \in Scripters : GuestTrap(t)
    \/ \E t \in Scripters, ret \in ReturnValues, beh \in ExportBehaviours :
          \E a \in ArgsFor(beh, ExportBehaviours) : GuestReturn(t, ret, beh, a)

SpecAnyGuest == Init /\ [][NextAnyGuest]_vars

\* what script_runner thread t does by itself: it takes a command, borrows
\* the repository, and the callback it runs traps or returns
ScripterStep(t) ==
    \/ \E beh \in LibraryExports, known \in BOOLEAN :
          \E a \in ArgsFor(beh, LibraryExports) : TakeJob(t, beh, a, known)
    \/ BorrowAndPrepare(t)
    \/ GuestTrap(t)
    \/ \E ret \in ReturnValues, beh \in LibraryExports :
          \E a \in ArgsFor(beh, LibraryExports) : GuestReturn(t, ret, beh, a)

\* the scheduler runs every script thread, the lock of the repository is
\* granted to a thread that keeps asking, and guest calls end
SpecFair ==
    /\ Spec
    /\ \A t \in Scripters : WF_vars(ScripterStep(t)) /\ SF_vars(BorrowAndPrepare(t))

\* ------------------------------------------------------------------------
\* Properties of Spec
\* ------------------------------------------------------------------------
RenderedRequests == {renderQ[i].req : i \in 1..Len(renderQ)}

\* C1: a write_table_entry called by the callback of a read-only route traps
\* with "RW/RO barrier", stages nothing and makes process_script return an
\* error; no render command is ever sent for a request whose process_script
\* returned an error
C1_RoBarrier ==
    /\ (lastCall.fn = "write_table_entry" /\ lastCall.phase = "call"
           /\ lastCall.repo = "ReadOnly")
       => /\ lastCall.outcome = "trap"
          /\ lastCall.msg = "RW/RO barrier"
          /\ ~lastCall.staged
          /\ result[lastCall.req] = "err"
    /\ \A r \in 1..MaxJobs : result[r] = "err" => r \notin RenderedRequests

C1_Witness ==
    /\ lastCall.fn = "write_table_entry"
    /\ lastCall.phase = "call"
    /\ lastCall.repo = "ReadOnly"
    /\ lastCall.outcome = "trap"
    /\ files = [p \in DbPaths |-> Missing]

\* C2: a host import called while the Handle's repository is None traps and
\* changes neither the template, nor the parameters, nor the store
C2_TrapOutsideInvocation ==
    (lastCall.fn \in ImportNames /\ lastCall.repo = "None")
    => /\ lastCall.outcome = "trap"
       /\ ~lastCall.changed
       /\ ~lastCall.staged

\* C3: when an invocation starts (Handle::prepare), the Handle has no
\* template and no parameters, whatever happened on the instance before
C3_CleanAtStart ==
    [][\A t \in Scripters :
          (pc[t] = "wait_lock" /\ pc'[t] = "call")
          => /\ handle'[t].template = NoTemplate
             /\ handle'[t].parameters = NoParams]_vars

\* C4: while no invocation is in progress on an instance, the Handle's
\* repository is None
C4_NoneAtRest ==
    \A t \in Scripters : pc[t] \in {"idle", "wait_lock"} => handle[t].repo = "None"

\* C5: the cached guest exports and the site's intern pool stay in the
\* Handle for the life of the instance
C5_ExportsPersist ==
    \A t \in Scripters :
        pc[t] # "dead" => (handle[t].exports /\ handle[t].pool = "site")

\* C6: while the callback of a read-write route runs, no other callback of
\* the tenant runs on any scripter thread
C6_WriterExclusive ==
    \A t1, t2 \in Scripters :
        (t1 # t2 /\ pc[t1] = "call" /\ ~job[t1].read_only) => pc[t2] # "call"

C6_Witness ==
    \E t1, t2 \in Scripters :
        /\ pc[t1] = "call" /\ ~job[t1].read_only
        /\ pc[t2] = "wait_lock"

\* callbacks of two read-only routes overlap
ReadersOverlap ==
    \E t1, t2 \in Scripters :
        t1 # t2 /\ pc[t1] = "call" /\ pc[t2] = "call"

\* ------------------------------------------------------------------------
\* Properties of SpecDeploy and SpecUpload
\* ------------------------------------------------------------------------
Approved == {r \in 1..MaxRequests : dResult[r].res = "ok"}

\* C7: once a key is bound to a hostname it stays bound, every approved
\* /request for the hostname carries that key (so a request with another key
\* is rejected, also when two first requests run concurrently), and upload
\* sessions come from approved requests only
C7_HostnameOwnership ==
    [][/\ \A h \in Hosts : admins[h] # None => admins'[h] = admins[h]
       /\ \A r \in 1..MaxRequests :
             dResult'[r].res = "ok" => admins'[dResult'[r].site] = dResult'[r].key
       /\ \A r \in 1..MaxRequests :
             dResult'[r].res = "Invalid signature" =>
                /\ admins'[dResult'[r].site] # None
                /\ admins'[dResult'[r].site] # dResult'[r].key
       /\ \A k \in DOMAIN pending' :
             \E r \in 1..MaxRequests :
                /\ dResult'[r].res = "ok"
                /\ dResult'[r].site = pending'[k].site
       /\ (DOMAIN pending') \ (DOMAIN pending) # {} =>
             \E r \in 1..MaxRequests :
                dResult'[r].res = "ok" /\ dResult[r].res = "none"]_vars

C7_Witness ==
    \E r1, r2 \in 1..MaxRequests :
        /\ dResult[r1].res = "ok"
        /\ dResult[r2].res = "Invalid signature"
        /\ dResult[r1].site = dResult[r2].site
        /\ dResult[r1].key # dResult[r2].key
        /\ admins[dResult[r1].site] = dResult[r1].key

IsPrefix(p, q) == Len(p) <= Len(q) /\ SubSeq(q, 1, Len(p)) = p

\* the upload request of receiver u found its session and its body was read
\* without an I/O error
Uploading(u) == up[u].size >= 0 /\ ~up[u].readErr

\* the read loop of u has consumed the whole body and still expects bytes
StuckAtEnd(u) ==
    up[u].pc = "reading" /\ up[u].sent = Len(up[u].body) /\ up[u].body_len > 0

\* C8: an upload whose body has exactly the size the session was opened
\* with hands upload_progress exactly the bytes of the body, in order, and
\* then closes the session once, with end_of_upload(token, true)
C8_UploadExact ==
    \A u \in Receivers :
        (Uploading(u) /\ Len(up[u].body) = up[u].size)
        => /\ IsPrefix(up[u].appended, up[u].body)
           /\ up[u].pc # "abort"
           /\ ~StuckAtEnd(u)
           /\ up[u].pc \in {"done", "dead"} =>
                 (up[u].appended = up[u].body /\ up[u].closes = <<TRUE>>)

\* C9: an upload whose body is longer than the size the session was opened
\* with is closed with end_of_upload(token, false), answered 400, and
\* inserts no site
C9_OverlongRejected ==
    \A u \in Receivers :
        (Uploading(u) /\ Len(up[u].body) > up[u].size /\ up[u].pc = "done")
        => /\ up[u].closes = <<FALSE>>
           /\ up[u].resp = 400
           /\ ~up[u].inserted

\* C10: an upload that delivers exactly the session's size in bytes that form
\* a valid bundle is answered 200, its hostname is then in the registry and
\* its token is no longer pending
C10_UploadRegisters ==
    \A u \in Receivers :
        (Uploading(u) /\ Len(up[u].body) = up[u].size
            /\ BundleOutcome(up[u].body) = "ok")
        => /\ up[u].pc \notin {"dead", "abort"}
           /\ ~StuckAtEnd(u)
           /\ up[u].pc = "done" =>
                 (up[u].resp = 200 /\ up[u].inserted /\ up[u].gone)

\* ------------------------------------------------------------------------
\* Properties of SpecRoute
\* ------------------------------------------------------------------------
\* the segments the loop has taken
Taken == 1..Len(how)

IsStatic(n) == n # NoEndpoint /\ tree[n].kind = "Static"

\* p followed by "/" + segment for each segment
RECURSIVE JoinPath(_, _)
JoinPath(p, segs) ==
    IF segs = <<>> THEN p ELSE JoinPath(p \o "/" \o Head(segs), Tail(segs))

\* the segments among the first n whose step carries one of the tags, in order
RECURSIVE SegmentsTagged(_, _)
SegmentsTagged(n, tags) ==
    IF n = 0 THEN <<>>
    ELSE IF how[n].tag \in tags
         THEN Append(SegmentsTagged(n - 1, tags), path[n])
         ELSE SegmentsTagged(n - 1, tags)

\* C11 as stated: in a Dir an exact item wins; otherwise a default, whenever
\* the Dir has one, is chosen before the wildcard; the wildcard is used only
\* when the Dir has neither the item nor a default
C11_Priority ==
    \A i \in Taken :
        tree[how[i].from].kind = "Dir" =>
            LET m == tree[how[i].from]
                seg == path[i]
            IN /\ seg \in DOMAIN m.items =>
                    (how[i].tag = "item" /\ how[i].to = m.items[seg])
               /\ (seg \notin DOMAIN m.items /\ m.default # NoEndpoint) =>
                    (how[i].tag = "default" /\ how[i].to = m.default)
               /\ how[i].tag = "wildcard" =>
                    (seg \notin DOMAIN m.items /\ m.default = NoEndpoint)

\* C11, amended: in a Dir an exact item wins; otherwise a default that is a
\* Static is chosen before the wildcard; otherwise the wildcard is used if
\* there is one (a default that is no Static is not chosen for a segment);
\* otherwise resolution falls back to on_404
C11_PriorityStaticDefault ==
    \A i \in Taken :
        tree[how[i].from].kind = "Dir" =>
            LET m == tree[how[i].from]
                seg == path[i]
                miss == seg \notin DOMAIN m.items
            IN /\ ~miss => (how[i].tag = "item" /\ how[i].to = m.items[seg])
               /\ (miss /\ IsStatic(m.default)) =>
                    (how[i].tag = "default" /\ how[i].to = m.default)
               /\ (miss /\ ~IsStatic(m.default) /\ m.wildcard # NoEndpoint) =>
                    (how[i].tag = "wildcard" /\ how[i].to = m.wildcard)
               /\ (miss /\ ~IsStatic(m.default) /\ m.wildcard = NoEndpoint) =>
                    (how[i].tag = "none" /\ how[i].to = NotFound)

C11_Witness ==
    /\ rpc = "done"
    /\ \E i \in Taken :
          LET m == tree[how[i].from]
          IN /\ m.kind = "Dir"
             /\ path[i] \notin DOMAIN m.items
             /\ IsStatic(m.default)
             /\ m.wildcard # NoEndpoint
             /\ how[i].tag = "default"
    /\ \E i \in Taken :
          LET m == tree[how[i].from]
          IN /\ m.kind = "Dir"
             /\ m.default # NoEndpoint /\ ~IsStatic(m.default)
             /\ how[i].tag = "wildcard"

\* C12: once a Static is entered through a Dir's default, the segment that
\* triggered it and every later segment are appended, each as "/" + segment,
\* to path_override, which starts from the Static's path; none of them is
\* pushed to path_vars; the resolved endpoint is that Static
C12_StaticAbsorption ==
    \A i \in Taken :
        how[i].tag = "default" =>
            /\ IsStatic(how[i].to)
            /\ \A j \in i..Len(how) : how[j].absorbed /\ how[j].to = how[i].to
            /\ path_override =
                  SomeOverride(JoinPath(tree[how[i].to].path,
                                        SubSeq(path, i, Len(how))))
            /\ path_vars = SegmentsTagged(i - 1, {"wildcard", "upload"})
            /\ endpoint = how[i].to

C12_Witness ==
    /\ rpc = "done"
    /\ Len(how) = 3
    /\ how[1].tag = "wildcard"
    /\ how[2].tag = "default"
    /\ path_vars = <<path[1]>>
    /\ path_override = SomeOverride("p/" \o path[2] \o "/" \o path[3])

\* C13: every segment that descended through a wildcard is in path_vars, in
\* path order; path_vars holds these and the segments taken under an Upload,
\* so when no Upload is traversed it holds nothing else
C13_WildcardCapture ==
    /\ path_vars = SegmentsTagged(Len(how), {"wildcard", "upload"})
    /\ (\A i \in Taken : how[i].tag # "upload") =>
          path_vars = SegmentsTagged(Len(how), {"wildcard"})

C13_Witness ==
    /\ rpc = "done"
    /\ Len(how) = 3
    /\ how[1].tag = "wildcard" /\ how[2].tag = "item" /\ how[3].tag = "none"
    /\ path_vars = <<"x">>

\* the last segment of the path descended through a wildcard whose child is
\* a Static
LastThroughWildcard ==
    /\ rpc = "done"
    /\ Len(how) = Len(path)
    /\ how # <<>>
    /\ how[Len(how)].tag = "wildcard"
    /\ IsStatic(how[Len(how)].to)

\* C14 as stated: when the last segment s descends through a wildcard whose
\* child is Static(p), the result is that Static with path_override p/s and
\* s captured in path_vars
C14_WildcardStaticOverride ==
    LastThroughWildcard =>
        /\ endpoint = how[Len(how)].to
        /\ path_override =
              SomeOverride(tree[endpoint].path \o "/" \o path[Len(path)])
        /\ path_vars = <<path[Len(path)]>>

\* C14, amended: when the last segment s descends through a wildcard whose
\* child is Static(p), the result is that Static with no path_override (the
\* asset served is p) and s captured as the last element of path_vars
C14_WildcardStaticPlain ==
    LastThroughWildcard =>
        /\ endpoint = how[Len(how)].to
        /\ path_override = NoOverride
        /\ path_vars = SegmentsTagged(Len(how), {"wildcard", "upload"})
        /\ path_vars[Len(path_vars)] = path[Len(path)]

\* the tree {"a": {"[param]": "p"}} and the path /a/x
C14_Witness ==
    /\ LastThroughWildcard
    /\ path = <<"a", "x">>
    /\ how[1].tag = "item"
    /\ path_vars = <<"x">>
    /\ tree[endpoint].path = "p"

\* segment i descended through a wildcard whose child is a Static, and more
\* segments follow
WildcardThenMore(i) ==
    /\ i \in Taken
    /\ i < Len(path)
    /\ how[i].tag = "wildcard"
    /\ IsStatic(how[i].to)

\* C15: a wildcard cannot descend into a Static: when a segment was captured
\* by a wildcard whose child is a Static and another segment follows,
\* resolution falls back to on_404, so the request is answered from the
\* on_404 endpoint and never with an asset below the Static
C15_WildcardStatic404 ==
    \A i \in 1..MaxPath :
        (rpc = "done" /\ WildcardThenMore(i)) =>
            answer \in {Served(tree[NotFound].path), ErrorPage(500)}

\* ------------------------------------------------------------------------
\* Properties of the template round trip and of the scripter (Spec)
\* ------------------------------------------------------------------------
\* the render commands sent for request r, in order
RendersOf(r) == SelectSeq(renderQ, LAMBDA c : c.req = r)

\* C16: template round trip: a callback that calls set_template_name(t),
\* then set_template_param(k, v), and returns 0 makes process_script return
\* Template{t, {k: v}}, and the scripter sends exactly that render command
\* with the same request.  Step by step: each of the two imports, called
\* through valid pointers, returns to the callback with the name, or the
\* parameter, stored in the Handle; and a return of 0 with a template in the
\* Handle yields exactly one Template command carrying the Handle's name and
\* parameters for that request
C16_TemplateRoundTrip ==
    /\ (lastCall.phase = "call" /\ lastCall.args.valid) =>
          /\ lastCall.outcome = "ok"
          /\ \E t \in Scripters :
                /\ pc[t] = "call"
                /\ job[t].req = lastCall.req
                /\ lastCall.fn = "set_template_name" =>
                      handle[t].template = lastCall.args.name
                /\ lastCall.fn = "set_template_param" =>
                      /\ lastCall.args.key \in DOMAIN handle[t].parameters
                      /\ handle[t].parameters[lastCall.args.key] = lastCall.args.value
    /\ lastCall.returned.some =>
          /\ result[lastCall.returned.req] = "template"
          /\ RendersOf(lastCall.returned.req) =
                <<[req |-> lastCall.returned.req, kind |-> "Template",
                   template |-> lastCall.returned.template,
                   parameters |-> lastCall.returned.parameters, json |-> 0]>>

\* C18: for each ScriptJob the scripter enqueues exactly one render command
\* with the same request when process_script returns Ok (Json to Json,
\* Template to Template); when process_script returns Err it enqueues
\* nothing, so no response is written for that request
C18_OneRenderPerOk ==
    \A r \in 1..MaxJobs :
        /\ result[r] = "json" =>
              (Len(RendersOf(r)) = 1 /\ RendersOf(r)[1].kind = "Json")
        /\ result[r] = "template" =>
              (Len(RendersOf(r)) = 1 /\ RendersOf(r)[1].kind = "Template")
        /\ result[r] = "err" =>
              (RendersOf(r) = <<>> /\ r \notin RenderedRequests)

\* one script returned a template, the other failed
C18_Witness ==
    \E r, q \in 1..MaxJobs :
        /\ result[r] = "template"
        /\ result[q] = "err"
        /\ Len(renderQ) = 1
        /\ renderQ[1].req = r

\* ------------------------------------------------------------------------
\* Properties of the registry and of upload sessions (SpecUpload)
\* ------------------------------------------------------------------------
\* C17: once a hostname resolves to a Site it resolves to a Site in every
\* later state: no step (request handling, /request, upload, failed upload,
\* failed bundle construction) removes a registry entry
C17_RegistryMonotone ==
    [][\A h \in Hosts : registry[h] # "none" => registry'[h] # "none"]_vars

\* a tenant was inserted next to the deployer, and another upload failed
C17_Witness ==
    /\ registry["a.com"] = "WasmApp"
    /\ registry[DeployerHost] = "Deployer"
    /\ \E u, v \in Receivers :
          /\ u # v
          /\ up[u].inserted
          /\ up[v].resp = 400

\* C20: the entry of an upload session is removed when the session closes
\* with either outcome: right after end_of_upload(token, true) or
\* end_of_upload(token, false), check_upload_token(token) returns None, so no
\* later upload against that token is accepted
C20_EntryRemovedOnClose ==
    [][\A u \in Receivers :
          Len(up'[u].closes) > Len(up[u].closes) =>
              up'[u].token \notin DOMAIN pending']_vars

\* ------------------------------------------------------------------------
\* Properties of the renderer (SpecRender)
\* ------------------------------------------------------------------------
\* C19: for every render command the renderer takes it writes exactly one
\* response: 200 with the rendered template or the dumped JSON when the site
\* call returns Ok, 500 with body "Renderer error" when it returns Err
C19_OneResponsePerRender ==
    \A r \in 1..MaxRenders :
        /\ r > rNext - Len(rendersRx) => responses[r] = <<>>
        /\ r <= rNext - Len(rendersRx) =>
              /\ Len(responses[r]) = 1
              /\ rresult[r] = "ok" => responses[r][1].status = 200
              /\ rresult[r] # "ok" =>
                    responses[r][1] = [status |-> 500, body |-> "Renderer error"]

\* ------------------------------------------------------------------------
\* C21: once serve() has spawned its threads, the number of script_runner
\* threads is the script_threads property of the configuration file, the
\* number of request_waiter threads its request_threads property and the
\* number of renderer threads its render_threads property.
\* ------------------------------------------------------------------------
C21_ThreadCounts ==
    (spc = "join" /\ config["script_threads"].isNum) =>
        /\ Cardinality(Spawned("script_runner")) = config["script_threads"].value
        /\ Cardinality(Spawned("request_waiter")) = config["request_threads"].value
        /\ Cardinality(Spawned("renderer")) = config["render_threads"].value

\* the messages of the traps Handle::repo raises
GateTraps == {"Nested internal call", "RW/RO barrier"}

\* the last step called a table import while the Handle's repository was repo
TableCall(fn, repo) == lastCall.fn = fn /\ lastCall.repo = repo

\* ------------------------------------------------------------------------
\* C22: Handle::prepare sets the repository handle to ReadOnly exactly when
\* the route is read-only and to ReadWrite otherwise; read_table_entry is
\* let through the gate for ReadOnly and ReadWrite and traps "Nested
\* internal call" for None; write_table_entry is let through for ReadWrite,
\* traps "RW/RO barrier" for ReadOnly and traps for None.
\* ------------------------------------------------------------------------
C22_Gating ==
    [][/\ \A t \in Scripters :
             (pc[t] = "wait_lock" /\ pc'[t] = "call")
             => handle'[t].repo = IF job[t].read_only THEN "ReadOnly" ELSE "ReadWrite"
       /\ (lastCall'.fn \in {"read_table_entry", "write_table_entry"}
             /\ lastCall'.repo = "None")
          => (lastCall'.outcome = "trap" /\ lastCall'.msg = "Nested internal call")
       /\ (lastCall'.fn = "read_table_entry" /\ lastCall'.repo \in {"ReadOnly", "ReadWrite"})
          => lastCall'.msg \notin GateTraps
       /\ (lastCall'.fn = "write_table_entry" /\ lastCall'.repo = "ReadWrite")
          => lastCall'.msg \notin GateTraps
       /\ (lastCall'.fn = "write_table_entry" /\ lastCall'.repo = "ReadOnly")
          => (lastCall'.outcome = "trap" /\ lastCall'.msg = "RW/RO barrier")]_vars

\* a write access of a read-write invocation went through and staged a file
C22_Witness ==
    /\ TableCall("write_table_entry", "ReadWrite")
    /\ lastCall.outcome = "ok"
    /\ lastCall.staged

\* the other cases of the gate
C22_ReadOfNone == TableCall("read_table_entry", "None") /\ lastCall.outcome = "trap"
C22_WriteOfNone == TableCall("write_table_entry", "None") /\ lastCall.outcome = "trap"
C22_ReadOfReadOnly == TableCall("read_table_entry", "ReadOnly") /\ lastCall.outcome = "ok"
C22_ReadOfReadWrite == TableCall("read_table_entry", "ReadWrite") /\ lastCall.outcome = "ok"
C22_WriteOfReadOnly == TableCall("write_table_entry", "ReadOnly") /\ lastCall.outcome = "trap"

\* thread t holds the guard its invocation asked for
HoldsGuard(t, rd, wr, read_only) ==
    IF read_only THEN t \in rd /\ wr # t ELSE wr = t /\ t \notin rd

Returns(t, ret, freed) ==
    \E a \in ArgsFor("ok", LibraryExports) :
        GuestReturn(t, ret, IF freed THEN "ok" ELSE "trap", a)

\* the callback of thread t has just started: it has set no template
JustStarted(t) == lastCall.fn = "prepare" /\ lastCall.req = job[t].req

\* the callback of thread t has just set a template name
JustNamed(t) ==
    /\ lastCall.fn = "set_template_name"
    /\ lastCall.phase = "call"
    /\ lastCall.outcome = "ok"
    /\ lastCall.args.valid
    /\ lastCall.req = job[t].req

\* ------------------------------------------------------------------------
\* C24: a callback that returns 0 after setting a template yields a Template
\* result; one that returns nonzero without setting a template yields a Json
\* result carrying the returned handle; a callback that returns 0 without
\* setting a template, or nonzero after setting one, and every callback
\* that traps, yields an error for its request.
\* ------------------------------------------------------------------------
C24_ResultInterpretation ==
    [][\A t \in Scripters :
          LET r == job[t].req IN
          /\ (JustNamed(t) /\ Returns(t, 0, TRUE)) => result'[r] = "template"
          /\ (JustNamed(t) /\ Returns(t, 1, TRUE)) => result'[r] = "err"
          /\ (JustStarted(t) /\ Returns(t, 1, TRUE))
             => /\ result'[r] = "json"
                /\ renderQ' = Append(renderQ,
                       [req |-> r, kind |-> "Json", template |-> NoTemplate,
                        parameters |-> NoParams, json |-> 1])
          /\ (JustStarted(t) /\ Returns(t, 0, TRUE)) => result'[r] = "err"
          /\ (\E ret \in ReturnValues : Returns(t, ret, FALSE)) => result'[r] = "err"
          /\ GuestTrap(t) => result'[r] = "err"
          /\ (pc[t] = "call" /\ lastCall'.phase = "call" /\ lastCall'.req = r
                /\ lastCall'.outcome = "trap")
             => result'[r] = "err"]_vars

\* ------------------------------------------------------------------------
\* C29: the dispatch of an Upload endpoint with no captured segment, with
\* more than one, or with a token check_upload_token does not know responds
\* 400, calls neither upload_progress nor end_of_upload, and leaves every
\* pending upload and every other request as it was.
\* ------------------------------------------------------------------------
C29_UploadRejected ==
    [][\A u \in Receivers, segs \in UploadPaths, body \in UploadBodies :
          (/\ StartUpload(u, segs, body)
           /\ (Len(segs) # 1 \/ segs[1] \notin DOMAIN pending))
          => /\ up'[u].pc = "done"
             /\ up'[u].resp = 400
             /\ up'[u].appended = <<>>
             /\ up'[u].closes = <<>>
             /\ pending' = pending
             /\ \A v \in Receivers \ {u} : up'[v] = up[v]]_vars

\* a /request body with a field that is missing, not a string, not a key of
\* sixty-four hex digits or not a number
Malformed(body) ==
    \/ ~as_string(body.site)
    \/ ~as_string(body.key)
    \/ ~as_string(body.size_bytes)
    \/ (as_string(body.key) /\ decode_hex(body.key[2], KeyBytes) = None)
    \/ (as_string(body.size_bytes) /\ ParseUsize(body.size_bytes[2]) < 0)

\* a /request body asking for more than max_size_bytes
OverSize(body) ==
    as_string(body.size_bytes) /\ ParseUsize(body.size_bytes[2]) > MaxSizeBytes

\* the deployer's owners, pending uploads and registry stay as they are
DeployerUntouched ==
    admins' = admins /\ pending' = pending /\ registry' = registry

\* ------------------------------------------------------------------------
\* C30: a /request whose body is malformed or asks for more than
\* max_size_bytes, or whose key differs from the key bound to its site, is
\* answered with an error by process_script and leaves the owners, the
\* pending uploads and the registry unchanged: it binds no key and creates
\* no upload; a rejected request stays rejected.
\* ------------------------------------------------------------------------
C30_RejectedRequestNoEffect ==
    [][/\ \A t \in Scripters :
             /\ (TakeRequest(t) /\ (Malformed(Head(dQ).body) \/ OverSize(Head(dQ).body)))
                => /\ dResult'[Head(dQ).req].res = "err"
                   /\ dpc'[t] = "idle"
                   /\ DeployerUntouched
             /\ (/\ CheckOwner(t)
                 /\ admins[djob[t].site] # None
                 /\ admins[djob[t].site] # djob[t].key)
                => /\ dResult'[djob[t].req].res = "Invalid signature"
                   /\ dpc'[t] = "idle"
                   /\ DeployerUntouched
       /\ \A r \in 1..MaxRequests :
             dResult[r].res \in {"err", "Invalid signature"} => dResult'[r] = dResult[r]
       /\ \A r \in 1..MaxRequests :
             (dResult[r].res = "none" /\ dResult'[r].res \in {"err", "Invalid signature"})
             => DeployerUntouched]_vars

\* the first /request was rejected for its fields or its size: no key is
\* bound and no upload is pending
C30_Witness ==
    /\ dResult[1].res = "err"
    /\ dNext = 1
    /\ dQ = <<>>
    /\ admins = [h \in Hosts |-> None]
    /\ pending = <<>>


\* the endpoint the segment loop left
AfterSegments == IF how = <<>> THEN Root ELSE how[Len(how)].to

\* the first non-Dir on the chain of defaults from n, or on_404 at the first
\* Dir of the chain that has no default
RECURSIVE FirstNonDir(_)
FirstNonDir(n) ==
    IF tree[n].kind # "Dir" THEN n
    ELSE IF tree[n].default = NoEndpoint THEN NotFound
    ELSE FirstNonDir(tree[n].default)

\* the receiver found a site and has dispatched the endpoint it resolved
Dispatched == rpc = "done" /\ siteOpt \notin {"unset", "none"}

\* C25: once the segments are consumed a Dir is resolved by following
\* default: the endpoint dispatched is the first non-Dir of the chain, or
\* on_404 at the first Dir without a default; the trailing loop leaves
\* path_override alone (an empty path has none); a Dir is dispatched only
\* when on_404 is a Dir; and every request that arrives is finished
C25_TrailingDefault ==
    /\ [](Dispatched =>
            /\ endpoint = FirstNonDir(AfterSegments)
            /\ path = <<>> => (path_override = NoOverride /\ path_vars = <<>>)
            /\ tree[NotFound].kind # "Dir" => tree[endpoint].kind # "Dir")
    /\ <>(rpc = "done")

\* the path / on a tree whose root default is a Dir whose default is the
\* Static "p": the Static is dispatched without a path_override
C25_Witness ==
    /\ Dispatched
    /\ path = <<>>
    /\ tree[Root].default = SubDir
    /\ tree[SubDir].default = StaticLeaf
    /\ endpoint = StaticLeaf
    /\ path_override = NoOverride
    /\ answer = Served("p")

\* a trailing Dir without a default but with a wildcard: on_404 is dispatched
C25_NoDefault ==
    /\ Dispatched
    /\ tree[AfterSegments].kind = "Dir"
    /\ tree[AfterSegments].default = NoEndpoint
    /\ tree[AfterSegments].wildcard # NoEndpoint
    /\ endpoint = NotFound


\* the asset a Static endpoint asks the site for
AssetOf(e, override) == IF override.some THEN override.v ELSE e.path

\* what the receiver did for the request: the responses and the ScriptCommands
Outcome == <<written, sent>>

\* the outcome of dispatching on_404 with empty path_vars and no
\* path_override, by the kind of on_404
OnNotFound ==
    LET nf == tree[NotFound] IN
    CASE nf.kind = "Static" ->
           IF OpenStatic(siteOpt, nf.path, env)
           THEN <<(<<Served(nf.path)>>), <<>> >>
           ELSE <<(<<ErrorPage(500)>>), <<>> >>
      [] nf.kind = "ScriptExec" ->
           IF env.reads /\ ParseJson(siteOpt, env).ok
           THEN << <<>>, <<ScriptCommand(siteOpt, nf, <<>>, ParseJson(siteOpt, env).ptr)>> >>
           ELSE <<(<<ErrorPage(400)>>), <<>> >>
      [] OTHER -> <<(<<ErrorPage(500)>>), <<>> >>

\* C26: a Static endpoint is answered 200 with the asset on a hit; on a miss
\* on_404 is dispatched with empty path_vars and no path_override when it
\* differs from the endpoint, and 500 is answered otherwise; in every case
\* exactly one response is written or exactly one ScriptCommand is sent
C26_StaticDispatch ==
    (Dispatched /\ tree[endpoint].kind = "Static") =>
        LET e == tree[endpoint]
            asset == AssetOf(e, path_override)
        IN /\ OpenStatic(siteOpt, asset, env) =>
                  Outcome = <<(<<Served(asset)>>), <<>> >>
           /\ (~OpenStatic(siteOpt, asset, env) /\ tree[NotFound] # e) =>
                  Outcome = OnNotFound
           /\ (~OpenStatic(siteOpt, asset, env) /\ tree[NotFound] = e) =>
                  Outcome = <<(<<ErrorPage(500)>>), <<>> >>
           /\ Len(written) + Len(sent) = 1

\* the asset of a Static is missing, on_404 is another Static whose asset is
\* served
C26_Witness ==
    /\ Dispatched
    /\ tree[endpoint].kind = "Static"
    /\ endpoint # NotFound
    /\ ~OpenStatic(siteOpt, AssetOf(tree[endpoint], path_override), env)
    /\ tree[NotFound] = Leaf("Static", "404")
    /\ Outcome = <<(<<Served("404")>>), <<>> >>

\* the asset is missing and on_404 equals the endpoint: 500
C26_SameAsNotFound ==
    /\ Dispatched
    /\ endpoint = StaticLeaf
    /\ tree[NotFound] = tree[StaticLeaf]
    /\ Outcome = <<(<<ErrorPage(500)>>), <<>> >>

\* the asset is missing and on_404 is a script: the script is enqueued
C26_NotFoundScript ==
    /\ Dispatched
    /\ endpoint = StaticLeaf
    /\ tree[NotFound].kind = "ScriptExec"
    /\ written = <<>>
    /\ Len(sent) = 1


\* the body of the request was read and is a JSON text the site parsed
BodyParsed == env.reads /\ env.valid /\ env.guest = "ok"

\* C27: a ScriptExec endpoint sends exactly one ScriptCommand with the site,
\* the script name, the read-only flag, the path_vars, the handle of the
\* parsed body and the request when the body is read and parsed; when the
\* read or the parse fails it answers 400 and sends no ScriptCommand
C27_ScriptDispatch ==
    (Dispatched /\ tree[endpoint].kind = "ScriptExec") =>
        /\ BodyParsed =>
              /\ written = <<>>
              /\ sent = <<ScriptCommand(siteOpt, tree[endpoint], path_vars, 1)>>
        /\ ~BodyParsed =>
              /\ written = <<ErrorPage(400)>>
              /\ sent = <<>>

\* a tenant's script route receives a body that is not JSON and the script
\* is enqueued with the null handle
C27_NullBodyEnqueued ==
    /\ Dispatched
    /\ siteOpt = "WasmApp"
    /\ tree[endpoint].kind = "ScriptExec"
    /\ env.reads /\ ~env.valid
    /\ Len(sent) = 1
    /\ sent[1].body = 0


\* the request has no Host header, or the name before the port is no key of
\* the registry
NamesNoSite == hostHeader = NoHost \/ Head(hostHeader) \notin DOMAIN registry

\* C28: a request whose Host header, port stripped, names no site of the
\* registry is answered 502 by the receiver as soon as the header is looked
\* up; no ScriptCommand is sent and the state of the sites, of the script
\* threads and of the renderers is left as it was
C28_UnknownHost502 ==
    /\ []((NamesNoSite /\ rpc # "recv") =>
            /\ rpc = "done"
            /\ siteOpt = "none"
            /\ written = <<ErrorPage(502)>>
            /\ sent = <<>>)
    /\ [][NamesNoSite => UNCHANGED <<wasmVars, deployVars, renderVars>>]_vars

\* the host b.org is not registered: 502
C28_Witness ==
    /\ hostHeader = <<"b.org">>
    /\ rpc = "done"
    /\ answer = ErrorPage(502)
    /\ written = <<ErrorPage(502)>>
    /\ sent = <<>>

\* a registered host with a port is served by its site
C28_PortStripped ==
    /\ hostHeader = <<"a.com", ":", "80">>
    /\ rpc = "done"
    /\ siteOpt = "WasmApp"


\* C31: every approved /request creates a pending upload under a token that
\* was not pending at that moment, with an empty buffer, the requested size
\* and the requested hostname, and leaves every other pending upload as it
\* was, also when /request calls run on several script threads at once
C31_FreshSession ==
    [][\A r \in 1..MaxRequests :
          (dResult[r].res = "none" /\ dResult'[r].res = "ok") =>
              LET tok == dResult'[r].token IN
              /\ tok \notin DOMAIN pending
              /\ DOMAIN pending' = DOMAIN pending \cup {tok}
              /\ pending'[tok].bytes = <<>>
              /\ pending'[tok].site = dResult'[r].site
              /\ \A k \in DOMAIN pending : pending'[k] = pending[k]]_vars

\* two /request calls were approved while an upload to the first session had
\* already buffered bytes: two sessions under two tokens, the bytes kept
C31_Witness ==
    /\ dResult[1].res = "ok"
    /\ dResult[2].res = "ok"
    /\ dResult[1].token # dResult[2].token
    /\ DOMAIN pending = {dResult[1].token, dResult[2].token}
    /\ \E k \in DOMAIN pending : pending[k].bytes # <<>>


\* receiver u calls end_of_upload(token, false) in this step
FailedClose(u) == AbortUpload(u) \/ ReadError(u)

\* C32: end_of_upload(token, false) empties the buffer of the session and
\* keeps the pending entry and its hostname: after the call
\* check_upload_token(token) still returns a size and the buffer a later
\* upload to the token starts from is empty
C32_FailedCloseKeepsSession ==
    [][\A u \in Receivers :
          FailedClose(u) =>
              LET tok == up[u].token IN
              /\ CheckUploadToken("Deployer", tok)' = "some"
              /\ pending'[tok].bytes = <<>>
              /\ tok \in DOMAIN pending => pending'[tok].site = pending[tok].site]_vars

\* the same for the calls that find the session under a sound lock
C32_WhenSessionPresent ==
    [][\A u \in Receivers :
          (FailedClose(u) /\ ~pendingPoisoned /\ up[u].token \in DOMAIN pending) =>
              LET tok == up[u].token IN
              /\ CheckUploadToken("Deployer", tok)' = "some"
              /\ pending'[tok].bytes = <<>>
              /\ pending'[tok].site = pending[tok].site]_vars

\* a failed close found no session: the receiver panicked under the write
\* guard of pending_uploads
C32_ClosedMissingSession ==
    \E u \in Receivers :
        /\ up[u].pc = "dead"
        /\ up[u].readErr
        /\ up[u].token \notin DOMAIN pending
        /\ pendingPoisoned


\* the tid range of each pipeline function for the counts held by Sites
TidInRange(g, s) ==
    CASE g.fn = "request_waiter" -> g.tid >= 0 /\ g.tid < s.request_threads
      [] g.fn = "script_runner" ->
            /\ g.tid >= s.request_threads
            /\ g.tid < s.request_threads + s.script_threads
      [] OTHER ->
            /\ g.tid >= s.request_threads + s.script_threads
            /\ g.tid < total_threads(s)

\* C33: every WasmApp the registry holds has at least R+S+T instances, so
\* that threads[tid] is in bounds for every pipeline thread (receivers in
\* [0,R), scripters in [R,R+S), renderers in [R+S,R+S+T)) in parse_json,
\* process_script and dump_json; prepare_tls keeps the instance WasmApp::new
\* built at index 0, never leaves fewer instances than it found and puts
\* one distinct instance at every index
C33_InstancesCoverThreads ==
    /\ \A h \in Hosts :
          registry[h] = "WasmApp" =>
              /\ Len(tls[h]) >= total_threads(sitesThreads)
              /\ Len(tls[h]) >= Len(WasmAppNew(h))
              /\ tls[h][1] = WasmAppNew(h)[1]
              /\ \A i \in 1..Len(tls[h]) : tls[h][i] = [host |-> h, idx |-> i - 1]
              /\ \A i \in 1..Len(guards) : guards[i].tid < Len(tls[h])
    /\ \A i \in 1..Len(guards) : TidInRange(guards[i], sitesThreads)
    /\ access.some => access.inBounds

\* a renderer with the highest tid calls dump_json on a tenant registered
\* while the server runs with two threads per stage
C33_Witness ==
    /\ total_threads(sitesThreads) = 3 * MaxThreads
    /\ registry["a.com"] = "WasmApp"
    /\ access.some
    /\ access.fn = "dump_json"
    /\ access.host = "a.com"
    /\ access.tid = 3 * MaxThreads - 1
    /\ access.inBounds


\* request r waits in the script channel
InScriptQ(r) == \E i \in 1..Len(scriptQ) : scriptQ[i].req = r

\* C34: pipeline progress at the script stage, under fair scheduling and
\* terminating guest calls: every ScriptCommand put on the script channel is
\* eventually taken, by one script thread only; a request gets at most one
\* render command, and exactly one when its script returned Ok; and no
\* script thread stops serving later commands because of an earlier one
C34_PipelineProgress ==
    /\ \A r \in 1..MaxJobs : InScriptQ(r) ~> ~InScriptQ(r)
    /\ [](\A r \in 1..MaxJobs :
            /\ Cardinality({t \in Scripters : pc[t] # "idle" /\ job[t].req = r}) <= 1
            /\ Len(RendersOf(r)) <= 1
            /\ result[r] \in {"json", "template"} => Len(RendersOf(r)) = 1)
    /\ [](\A t \in Scripters : pc[t] # "dead")

\* a script thread served one command and panicked in the next
C34_ThreadGone ==
    \E t \in Scripters :
        /\ pc[t] = "dead"
        /\ result[1] \in {"json", "template", "err"}
        /\ result[2] = "panic"


\* C35: an opaque JSON handle is dereferenced only by the instance that
\* allocated it, and at most once: the body handle parse_json made on the
\* receiver's thread index is read by the callback in that same instance,
\* and the result handle of a callback is dumped by dump_json in the
\* instance that ran the callback
C35_HandleStaysInInstance ==
    \A k \in 1..Len(jsons) :
        /\ Len(jsons[k].uses) <= 1
        /\ \A n \in 1..Len(jsons[k].uses) : jsons[k].uses[n] = jsons[k].by

\* a body handle allocated in the instance of receiver 0 was read by the
\* callback in the instance of a script thread
C35_ForeignBody ==
    \E k \in 1..Len(jsons) :
        /\ jsons[k].kind = "body"
        /\ jsons[k].by.idx = 0
        /\ jsons[k].uses # <<>>
        /\ jsons[k].uses[1].idx # jsons[k].by.idx

\* a result handle of a callback was dumped in the instance of a renderer
C35_ForeignResult ==
    \E k \in 1..Len(jsons) :
        /\ jsons[k].kind = "result"
        /\ jsons[k].uses # <<>>
        /\ jsons[k].uses[1].idx # jsons[k].by.idx


\* C36: the dispatch of an Upload endpoint always ends with a response, for
\* every body, also one that ends before the expected bytes have arrived:
\* a receiver that reads an upload eventually has answered 200 or 400 and
\* is free for the next request
C36_UploadTerminates ==
    \A u \in Receivers :
        (up[u].pc = "reading") ~> (up[u].pc = "done" /\ up[u].resp \in {200, 400})

\* the body of one byte was read for a session of two bytes: every further
\* read returns 0 bytes and the loop goes on
C36_ShortBodySpins ==
    \E u \in Receivers :
        /\ StuckAtEnd(u)
        /\ up[u].body = <<"a">>
        /\ up[u].body_len = 1
        /\ \A v \in Receivers \ {u} : up[v].pc = "idle"


\* receiver u panicked in upload_progress or end_of_upload, or on the lock
\* such a panic poisoned (not inside WasmApp::new)
LostSession(u) == up[u].pc = "dead" /\ ~up[u].gone

\* C37: when receivers handle uploads to one token at the same time, no
\* receiver panics (every upload_progress and end_of_upload call finds its
\* session), and the bytes end_of_upload hands to WasmApp::new are the bytes
\* one request appended: bytes of different requests are never mixed in the
\* buffer of a session
C37_ConcurrentUploads ==
    /\ [](~pendingPoisoned /\ \A u \in Receivers : ~LostSession(u))
    /\ [][\A u \in Receivers :
             (FinishUpload(u) /\ up[u].token \in DOMAIN pending) =>
                 pending[up[u].token].bytes = up[u].appended]_vars

\* two receivers appended to the same session and one of them closed it
\* with the bytes of both
C37_MixedBytes ==
    \E u, v \in Receivers :
        /\ u # v
        /\ up[u].token = up[v].token
        /\ up[u].gone
        /\ up[u].appended # <<>>
        /\ up[v].appended # <<>>
        /\ Len(up[u].closes) = 1

\* a receiver lost its session to the other one and panicked
C37_Panicked ==
    \E u, v \in Receivers :
        /\ u # v
        /\ up[u].token = up[v].token
        /\ up[v].gone
        /\ LostSession(u)

\* C38: the hostname the deployer is bound to always resolves to the
\* built-in Deployer; no /request and /upload replaces its registry entry
\* with an uploaded tenant
C38_DeployerKept == registry[DeployerHost] = "Deployer"

\* a session was opened for the deployer's own hostname
C38_SessionForDeployer ==
    \E tok \in DOMAIN pending : pending[tok].site = DeployerHost

\* an upload put a WasmApp under the deployer's hostname
C38_DeployerReplaced ==
    /\ registry[DeployerHost] = "WasmApp"
    /\ \E u \in Receivers : up[u].inserted

\* C39: a 200 "success" response to /upload/<token> is sent only if that
\* upload inserted the session's hostname into the registry; an upload whose
\* bytes construct no WasmApp is not answered "success"
C39_SuccessMeansInserted ==
    \A u \in Receivers : up[u].resp = 200 => up[u].inserted

\* an upload of bytes that are no bundle was answered 200 and no tenant
\* was registered
C39_SuccessWithoutSite ==
    \E u \in Receivers :
        /\ up[u].resp = 200
        /\ BundleOutcome(up[u].appended) = "err"
        /\ registry["a.com"] = "none"

\* the segment loop and the trailing loop are over
Resolved ==
    \/ rpc \in {"dispatch", "done"}
    \/ rpc = "trail" /\ tree[endpoint].kind # "Dir"

\* the segments the loop appended to path_override, in order
RECURSIVE ConsumedAtStatic(_)
ConsumedAtStatic(n) ==
    IF n = 0 THEN <<>>
    ELSE IF how[n].absorbed
         THEN Append(ConsumedAtStatic(n - 1), path[n])
         ELSE ConsumedAtStatic(n - 1)

\* C40: after route resolution path_override is present only if the resolved
\* endpoint is a Static(p), and then it is p followed by "/" + segment for
\* each segment consumed at that Static, in order; no path_override goes
\* along with an on_404 fallback, by the walker or by a missing asset
C40_OverrideOnlyAtStatic ==
    Resolved =>
        /\ path_override.some =>
              /\ tree[endpoint].kind = "Static"
              /\ endpoint # NotFound
              /\ ConsumedAtStatic(Len(how)) # <<>>
              /\ \A i \in Taken : how[i].absorbed => how[i].to = endpoint
              /\ path_override.v =
                    JoinPath(tree[endpoint].path, ConsumedAtStatic(Len(how)))
        /\ endpoint = NotFound => path_override = NoOverride
        /\ (rpc = "done" /\ tree[endpoint].kind = "Static"
               /\ ~OpenStatic(siteOpt, AssetOf(tree[endpoint], path_override), env)
               /\ answer.what = "asset")
              => answer.asset = tree[NotFound].path

\* a Static reached through a wildcard consumed the two segments after it
C40_Witness ==
    /\ Resolved
    /\ Len(how) = 3
    /\ how[1].tag = "wildcard"
    /\ tree[endpoint].kind = "Static"
    /\ how[2].tag = "static" /\ how[3].tag = "static"
    /\ path_vars = <<path[1]>>
    /\ path_override =
          SomeOverride(tree[endpoint].path \o "/" \o path[2] \o "/" \o path[3])

\* the walker fell back on an on_404 that is a Static, after segments
C40_FallbackStatic ==
    /\ Resolved
    /\ endpoint = NotFound
    /\ tree[NotFound].kind = "Static"
    /\ Len(how) >= 2
    /\ path_override = NoOverride

\* the asset of an override was missing and the asset of on_404 was served
C40_MissingOverride ==
    /\ rpc = "done"
    /\ path_override.some
    /\ answer = Served(tree[NotFound].path)
    /\ answer.asset # path_override.v

====
